---------------------------- MODULE Spec2Model ----------------------------
(***************************************************************************)
(* Model of the spatial scoring engine of SGHMastercard: the layer counter *)
(* (Processing/GeoObject.py), the region aggregator (Processing/           *)
(* Province.py), the population estimator (Processing/Population.py), the  *)
(* province resolver (paczkomat.py), the score engine (score_calculator.py *)
(* and parcel_analysis/) and the /api/obszar handler (server.py).          *)
(*                                                                         *)
(* Numbers.  Coordinates are whole degrees.  Metres are fixed-point with   *)
(* one decimal: GeoObject.haversine and every radius in metres are carried *)
(* in tenths of a metre.  Real-valued scores are carried either as exact   *)
(* fractions [n, d] or as fixed-point integers in millionths ("micro");    *)
(* every place that rounds says so.                                        *)
(***************************************************************************)
EXTENDS Integers, Sequences, FiniteSets, TLC

VARIABLES
    env,         \* the data on disk and in memory: layers, lockers, grid
    proc,        \* "running", or "exited" once exit(0) has been called
    parseCount,  \* path -> number of times gpd.read_file parsed that layer
    gridReads,   \* number of times the population grid csv was read
    ret          \* the last call: operation, arguments, outcome, value

vars == <<env, proc, parseCount, gridReads, ret>>

(***************************************************************************)
(* Bounds of the model.                                                    *)
(***************************************************************************)
MaxFeatures == 2     \* features per vector layer
MaxFilters == 2      \* (key, value) pairs per attribute filter

(***************************************************************************)
(* Generic helpers.                                                        *)
(***************************************************************************)
SeqsUpTo(S, n) == UNION {[1..k -> S] : k \in 0..n}

Abs(x) == IF x < 0 THEN -x ELSE x

Min(a, b) == IF a < b THEN a ELSE b

Max(a, b) == IF a > b THEN a ELSE b

RECURSIVE SumSeq(_)
SumSeq(s) == IF s = <<>> THEN 0 ELSE Head(s) + SumSeq(Tail(s))

NoRet == [op |-> "none"]

\* What a call that raised hands back in place of a value.
NoValue == "no value"

(***************************************************************************)
(* Trigonometry on the coordinate grid.  CosT(x) is 1000*cos(x degrees)    *)
(* for the multiples of 30 degrees the grid produces; HavT[c+1] is         *)
(* 10^6 * sin^2(c/2) for c = 0..180 whole degrees of arc.                  *)
(***************************************************************************)
Deg == {0, 30, 60}

CosT(x) ==
    CASE Abs(x) = 0  -> 1000
      [] Abs(x) = 30 -> 866
      [] Abs(x) = 60 -> 500
      [] Abs(x) = 90 -> 0

HavT ==
    << 0, 76, 305, 685, 1218, 1903, 2739, 3727, 4866, 6156,
       7596, 9186, 10926, 12815, 14852, 17037, 19369, 21848, 24472, 27241,
       30154, 33210, 36408, 39748, 43227, 46846, 50603, 54497, 58526, 62690,
       66987, 71416, 75976, 80665, 85481, 90424, 95492, 100682, 105995, 111427,
       116978, 122645, 128428, 134323, 140330, 146447, 152671, 159001, 165435, 171970,
       178606, 185340, 192169, 199092, 206107, 213212, 220404, 227680, 235040, 242481,
       250000, 257595, 265264, 273005, 280814, 288691, 296632, 304634, 312697, 320816,
       328990, 337216, 345492, 353814, 362181, 370590, 379039, 387524, 396044, 404596,
       413176, 421783, 430413, 439065, 447736, 456422, 465122, 473832, 482550, 491274,
       500000, 508726, 517450, 526168, 534878, 543578, 552264, 560935, 569587, 578217,
       586824, 595404, 603956, 612476, 620961, 629410, 637819, 646186, 654508, 662784,
       671010, 679184, 687303, 695366, 703368, 711309, 719186, 726995, 734736, 742405,
       750000, 757519, 764960, 772320, 779596, 786788, 793893, 800908, 807831, 814660,
       821394, 828030, 834565, 840999, 847329, 853553, 859670, 865677, 871572, 877355,
       883022, 888573, 894005, 899318, 904508, 909576, 914519, 919335, 924024, 928584,
       933013, 937310, 941474, 945503, 949397, 953154, 956773, 960252, 963592, 966790,
       969846, 972759, 975528, 978152, 980631, 982963, 985148, 987185, 989074, 990814,
       992404, 993844, 995134, 996273, 997261, 998097, 998782, 999315, 999695, 999924,
       1000000 >>

\* a with cos(phi1) squared in place of cos(phi1) cos(phi2).
HavAFirstCosine(lat1, lon1, lat2, lon2) ==
    ( (1000 - CosT(lat2 - lat1)) * 1000
      + (CosT(lat1) * CosT(lat1) * (1000 - CosT(lon2 - lon1))) \div 1000 ) \div 2

\* a = sin^2(dphi/2) + cos(phi1) cos(phi2) sin^2(dlambda/2), in millionths,
\* with sin^2(x/2) = (1 - cos x)/2.
HavA(lat1, lon1, lat2, lon2) ==
    ( (1000 - CosT(lat2 - lat1)) * 1000
      + (CosT(lat1) * CosT(lat2) * (1000 - CosT(lon2 - lon1))) \div 1000 ) \div 2

\* c = 2 atan2(sqrt a, sqrt(1 - a)) = 2 asin(sqrt a), in whole degrees of arc
\* (rounded down).
RECURSIVE ArcSearch(_, _, _)
ArcSearch(a, lo, hi) ==
    IF lo = hi THEN lo
    ELSE LET mid == (lo + hi + 1) \div 2
         IN IF HavT[mid + 1] <= a THEN ArcSearch(a, mid, hi)
                                  ELSE ArcSearch(a, lo, mid - 1)

ArcDeg(a) == ArcSearch(a, 0, 180)

EarthRadiusKm == 6371
Pi1e4 == 31416

\* Great-circle arc per degree, R * pi / 180: in tenths of a metre, and in metres.
TenthsPerDeg == (EarthRadiusKm * Pi1e4) \div 180

MetersPerDeg == (EarthRadiusKm * Pi1e4) \div 1800

\* The arc c in degrees for every (lat1, lon1, lat2, lon2) of the grid,
\* tabulated once.
ArcT ==
    [q \in Deg \X Deg \X Deg \X Deg |-> ArcDeg(HavA(q[1], q[2], q[3], q[4]))] @@ <<>>

\* GeoObject.haversine(lat1, lon1, lat2, lon2): R * c in tenths of a metre.
haversine(lat1, lon1, lat2, lon2) == TenthsPerDeg * ArcT[<<lat1, lon1, lat2, lon2>>]

(***************************************************************************)
(* GeoObject: one vector layer.  A layer file holds the attribute columns  *)
(* cols and, per feature, a geometry (a point, x = longitude, y =          *)
(* latitude) and one value per attribute column.  The GeoDataFrame held by *)
(* a GeoObject adds the columns "center" (process) and "distance"          *)
(* (count_objects).                                                        *)
(***************************************************************************)
Point(x, y) == [x |-> x, y |-> y]

AttrCols == {"fclass", "code"}

AttrValues(c) == IF c = "fclass" THEN {"kiosk", "fuel"} ELSE {"c1"}

FeaturePoints == {Point(0, 60), Point(60, 60), Point(0, 30)}

FeaturesOf(cols) ==
    [geometry : FeaturePoints, attrs : {f \in [cols -> {"kiosk", "fuel", "c1"}] :
                                           \A c \in cols : f[c] \in AttrValues(c)}]

LayerFiles ==
    UNION {[cols : {cols}, rows : SeqsUpTo(FeaturesOf(cols), MaxFeatures)] :
              cols \in {{"fclass"}, {"fclass", "code"}}}

\* GeoObject.process: the centroid of each geometry, stored as column "center".
process(file) ==
    [cols |-> file.cols \cup {"geometry", "center"},
     rows |-> [i \in DOMAIN file.rows |->
                  [geometry |-> file.rows[i].geometry,
                   attrs    |-> file.rows[i].attrs,
                   center   |-> file.rows[i].geometry,
                   distance |-> -1]]]

\* The rows of `idx` that pass the filter pairs in dictionary order; looking up
\* a key that is no column of the frame raises KeyError.
RECURSIVE ApplyFilters(_, _, _)
ApplyFilters(gdf, idx, fs) ==
    IF fs = <<>> THEN [outcome |-> "ok", idx |-> idx]
    ELSE LET key == Head(fs)[1]
             value == Head(fs)[2]
         IN IF key \notin gdf.cols
            THEN [outcome |-> "KeyError", idx |-> {}]
            ELSE ApplyFilters(gdf,
                              {i \in idx : key \in DOMAIN gdf.rows[i].attrs
                                           /\ gdf.rows[i].attrs[key] = value},
                              Tail(fs))

NoFilter == <<"None">>

\* GeoObject.count_objects(center, radius, attr_filters): the frame after the
\* call (column "distance" written), the outcome and the count.
count_objects(gdf, center, radius, attr_filters) ==
    LET distance == [i \in DOMAIN gdf.rows |->
                        haversine(center.x, center.y,
                                  gdf.rows[i].center.x, gdf.rows[i].center.y)]
        withDist == [cols |-> gdf.cols \cup {"distance"},
                     rows |-> [i \in DOMAIN gdf.rows |->
                                  [gdf.rows[i] EXCEPT !.distance = distance[i]]]]
        filtered == {i \in DOMAIN gdf.rows : distance[i] <= radius}
        res == IF attr_filters = NoFilter
               THEN [outcome |-> "ok", idx |-> filtered]
               ELSE ApplyFilters(withDist, filtered, attr_filters)
    IN [gdf     |-> withDist,
        outcome |-> res.outcome,
        value   |-> IF res.outcome = "ok" THEN Cardinality(res.idx) ELSE NoValue]

(***************************************************************************)
(* SpecCount: one loaded layer, counted with every center, radius and      *)
(* filter of the bounded input sets.                                       *)
(***************************************************************************)
Centers == {Point(0, 60), Point(0, 0)}

ArcRadius == 30 * TenthsPerDeg

CountRadii == {0, ArcRadius, 2 * ArcRadius}

FilterPairs == {<<"fclass", "kiosk">>, <<"fclass", "fuel">>, <<"code", "c1">>}

FilterMaps ==
    {NoFilter} \cup
    {fs \in SeqsUpTo(FilterPairs, MaxFilters) :
        \A i, j \in DOMAIN fs : i # j => fs[i][1] # fs[j][1]}

InitCount ==
    /\ env \in {[gdf |-> process(f)] : f \in LayerFiles}
    /\ proc = "running"
    /\ parseCount = <<>>
    /\ gridReads = 0
    /\ ret = NoRet

CountObjects ==
    \E center \in Centers, radius \in CountRadii, fs \in FilterMaps :
        LET r == count_objects(env.gdf, center, radius, fs)
        IN /\ env' = [env EXCEPT !.gdf = r.gdf]
           /\ ret' = [op |-> "count_objects", center |-> center,
                      radius |-> radius, attr_filters |-> fs,
                      outcome |-> r.outcome, value |-> r.value]
           /\ UNCHANGED <<proc, parseCount, gridReads>>

NextCount == CountObjects

SpecCount == InitCount /\ [][NextCount]_vars

(***************************************************************************)
(* Fixed-point arithmetic of the scores.                                   *)
(***************************************************************************)
\* The largest s with s*s <= x, by bisection on lo..hi.
RECURSIVE SqrtSearch(_, _, _)
SqrtSearch(x, lo, hi) ==
    IF lo = hi THEN lo
    ELSE LET mid == (lo + hi + 1) \div 2
         IN IF mid * mid <= x THEN SqrtSearch(x, mid, hi)
                              ELSE SqrtSearch(x, lo, mid - 1)

ISqrt(x) == SqrtSearch(x, 0, 46340)

\* math.pi * (radius / 1000) ** 2 in millionths of a km^2, for a radius in
\* tenths of a metre (at most 4.6 km, rounded down to 0.00003 km^2).
AreaMicro(radius) == (((radius * radius) \div 100000) * Pi1e4) \div 10

(***************************************************************************)
(* What a call hands back: the process-wide state st = [proc, parseCount,  *)
(* gridReads] after it, how it ended ("ok", the exception raised, or       *)
(* "exit" when exit(0) ended the process) and its value.                   *)
(***************************************************************************)
World == [proc |-> proc, parseCount |-> parseCount, gridReads |-> gridReads]

(***************************************************************************)
(* Population: the resident grid.  env.grid says whether the grid file is  *)
(* on disk and holds its rows, each a cell centroid (WGS84 degrees) and a  *)
(* count RES.                                                              *)
(***************************************************************************)
SentinelPopulation == 1000

\* Population.__init__: reads and parses the grid file.
Population_init(st) ==
    IF ~env.grid.present
    THEN [st |-> st, outcome |-> "FileNotFoundError", df |-> <<>>]
    ELSE [st |-> [st EXCEPT !.gridReads = @ + 1],
          outcome |-> "ok",
          df |-> [i \in DOMAIN env.grid.rows |->
                     [center |-> env.grid.rows[i].center, RES |-> env.grid.rows[i].RES,
                      distance |-> -1]]]

\* Population.find_containing(center, radius): the frame after the call and the
\* rows retained.
find_containing(df, center, radius) ==
    LET distance == [i \in DOMAIN df |->
                        haversine(center.x, center.y, df[i].center.x, df[i].center.y)]
    IN [df  |-> [i \in DOMAIN df |-> [df[i] EXCEPT !.distance = distance[i]]],
        idx |-> {i \in DOMAIN df : distance[i] <= radius}]

\* int(radius) for a radius >= 0 in tenths of a metre.
IntOfTenths(radius) == (radius \div 10) * 10

RECURSIVE SumRES(_, _)
SumRES(df, idx) ==
    IF idx = {} THEN 0
    ELSE LET i == CHOOSE j \in idx : TRUE
         IN df[i].RES + SumRES(df, idx \ {i})

\* Population.calculate_population(center, radius): residents in thousandths.
calculate_population(df, center, radius) ==
    LET containing_squares == find_containing(df, center, IntOfTenths(radius))
        circle_area == AreaMicro(radius) \div 1000
        square_area == 1 * Cardinality(containing_squares.idx)
        circle_sum  == SumRES(df, containing_squares.idx)
    IN [df    |-> containing_squares.df,
        value |-> IF Cardinality(containing_squares.idx) = 0
                  THEN SentinelPopulation * 1000
                  ELSE (circle_area * circle_sum) \div square_area]

(***************************************************************************)
(* Province: the layers of one region.  env.osm.dirs are the region        *)
(* directories on disk, env.osm.files maps each layer path on disk to its  *)
(* file.  A path is the directory and the file name.                       *)
(***************************************************************************)
Path(dir, name) == [dir |-> dir, name |-> name]

BuildingsShp == "gis_osm_buildings_a_free_1.shp"
PoisShp      == "gis_osm_pois_a_free_1.shp"
TransportShp == "gis_osm_transport_a_free_1.shp"
TrafficShp   == "gis_osm_traffic_a_free_1.shp"

Bump(count, file) ==
    IF file \in DOMAIN count THEN [count EXCEPT ![file] = @ + 1]
                             ELSE count @@ (file :> 1)

\* GeoObject.__init__(path): parses the layer, or prints and calls exit(0) when
\* the data source cannot be opened.
GeoObject_init(st, file) ==
    IF file \notin DOMAIN env.osm.files
    THEN [st |-> [st EXCEPT !.proc = "exited"], outcome |-> "exit", obj |-> NoValue]
    ELSE [st |-> [st EXCEPT !.parseCount = Bump(@, file)],
          outcome |-> "ok",
          obj |-> [gdf |-> process(env.osm.files[file])]]

\* Province.__init__ with find_files: iterating a directory that does not exist
\* raises FileNotFoundError.
Province_init(st, province, center, radius) ==
    IF province \notin env.osm.dirs
    THEN [st |-> st, outcome |-> "FileNotFoundError", prov |-> NoValue]
    ELSE [st |-> st,
          outcome |-> "ok",
          prov |-> [path |-> province, center |-> center, radius |-> radius,
                    files |-> {f.name : f \in {g \in DOMAIN env.osm.files : g.dir = province}},
                    geo_object_dict |-> <<>>]]

\* get_geo_object that builds a GeoObject on every call and stores it over the
\* one it had.
GetGeoObjectAnew(st, prov, file) ==
    LET g == GeoObject_init(st, file)
    IN IF g.outcome # "ok"
       THEN [st |-> g.st, prov |-> prov, outcome |-> g.outcome]
       ELSE [st |-> g.st,
             prov |-> [prov EXCEPT !.geo_object_dict =
                          [f \in DOMAIN @ \cup {file} |->
                              IF f = file THEN g.obj ELSE @[f]]],
             outcome |-> "ok"]

\* Province.get_geo_object(file): the memoized GeoObject of this instance.
get_geo_object(st, prov, file) ==
    IF file \in DOMAIN prov.geo_object_dict
    THEN [st |-> st, prov |-> prov, outcome |-> "ok"]
    ELSE LET g == GeoObject_init(st, file)
         IN IF g.outcome # "ok"
            THEN [st |-> g.st, prov |-> prov, outcome |-> g.outcome]
            ELSE [st |-> g.st,
                  prov |-> [prov EXCEPT !.geo_object_dict = @ @@ (file :> g.obj)],
                  outcome |-> "ok"]

\* sum(geo_object.count_objects(center, radius, {'fclass': f}) for f in fclasses).
\* Every call overwrites column "distance" with the distances from the same
\* center, so each call finds the rows the first one found.
SumCounts(gdf, center, radius, fclasses) ==
    LET counts == [n \in DOMAIN fclasses |->
                      count_objects(gdf, center, radius, <<<<"fclass", fclasses[n]>>>>)]
        failed == {n \in DOMAIN fclasses : counts[n].outcome # "ok"}
    IN IF fclasses = <<>> THEN [gdf |-> gdf, outcome |-> "ok", value |-> 0]
       ELSE IF failed # {}
            THEN counts[CHOOSE n \in failed : \A m \in failed : n <= m]
            ELSE [gdf |-> counts[Len(fclasses)].gdf,
                  outcome |-> "ok",
                  value |-> SumSeq([n \in DOMAIN fclasses |-> counts[n].value])]

\* What a count hands back once the GeoObject g.prov.geo_object_dict[file] was
\* counted with result c: the frame of that GeoObject is the one c left.
Counted(g, file, c) ==
    [st |-> g.st,
     prov |-> [g.prov EXCEPT !.geo_object_dict[file].gdf = c.gdf],
     outcome |-> c.outcome,
     value |-> c.value]

\* The sum over fclasses on the GeoObject that get_geo_object(file) handed back
\* as g.
CategoryCountOn(g, file, center, radius, fclasses) ==
    IF g.outcome # "ok"
    THEN [st |-> g.st, prov |-> g.prov, outcome |-> g.outcome, value |-> NoValue]
    ELSE Counted(g, file,
                 SumCounts(g.prov.geo_object_dict[file].gdf, center, radius, fclasses))

\* A category count over one layer: get_geo_object, then the sum over fclasses.
CategoryCount(st, prov, name, fclasses) ==
    CategoryCountOn(get_geo_object(st, prov, Path(prov.path, name)),
                    Path(prov.path, name), prov.center, prov.radius, fclasses)

\* Province.find_count(file, fclass) with fclass None or a class.
\* geo_object.count_objects(center, radius, attr_filters) on the GeoObject that
\* get_geo_object(file) handed back as g.
FindCountOn(g, file, center, radius, attr_filters) ==
    IF g.outcome # "ok"
    THEN [st |-> g.st, prov |-> g.prov, outcome |-> g.outcome, value |-> NoValue]
    ELSE Counted(g, file,
                 count_objects(g.prov.geo_object_dict[file].gdf, center, radius,
                               attr_filters))

find_count(st, prov, name, fclass) ==
    FindCountOn(get_geo_object(st, prov, Path(prov.path, name)),
                Path(prov.path, name), prov.center, prov.radius,
                IF fclass = "None" THEN NoFilter ELSE <<<<"fclass", fclass>>>>)

building_count(st, prov) == find_count(st, prov, BuildingsShp, "None")

ShopClasses ==
    << "supermarket", "bakery", "kiosk", "mall", "department_store", "general",
       "convenience", "clothes", "florist", "chemist", "bookshop", "butcher",
       "shoe_shop", "beverages", "optician", "jeweller", "gift_shop", "sports_shop",
       "stationery", "outdoor_shop", "mobile_phone_shop", "toy_shop", "newsagent",
       "greengrocer", "beauty_shop", "video_shop", "car_dealership", "bicycle_shop",
       "doityourself", "furniture_shop", "computer_shop", "garden_centre",
       "hairdresser", "car_repair", "car_rental", "car_wash", "car_sharing",
       "bicycle_rental", "travel_agent", "laundry", "vending_machine",
       "vending_cigarette", "vending_parking" >>

shop_count(st, prov) == CategoryCount(st, prov, PoisShp, ShopClasses)

TransportClasses ==
    << "railway_station", "railway_halt", "tram_stop", "bus_stop", "bus_station",
       "taxi_rank", "airfield", "airport", "taxi_rank" >>

TrafficClasses ==
    << "fuel", "service", "parking", "parking_site", "parking_multistorey",
       "parking_underground", "parking_bicycle" >>

\* a + b of two counts made one after the other.
PlusCount(a, b) ==
    [b EXCEPT !.value = IF b.outcome = "ok" THEN a.value + b.value ELSE NoValue]

\* The second sum of parking_count, over the traffic layer, added to the first.
PlusTrafficCount(a) ==
    IF a.outcome # "ok" THEN a
    ELSE PlusCount(a, CategoryCount(a.st, a.prov, TrafficShp, TrafficClasses))

parking_count(st, prov) ==
    PlusTrafficCount(CategoryCount(st, prov, TransportShp, TransportClasses))

BusinessClasses ==
    << "car_dealership", "car_rental", "car_repair", "car_sharing", "car_wash",
       "bicycle_rental", "computer_shop", "mobile_phone_shop", "optician", "laundry",
       "hairdresser", "beauty_shop", "travel_agent", "jeweller", "general",
       "doityourself", "dry_cleaning", "florist", "butcher", "gift_shop",
       "sports_shop", "stationery", "outdoor_shop", "video_shop" >>

business_services_count(st, prov) == CategoryCount(st, prov, PoisShp, BusinessClasses)

HealthClasses == << "hospital", "clinic", "pharmacy", "doctors", "dentist", "veterinary" >>

health_count(st, prov) == CategoryCount(st, prov, PoisShp, HealthClasses)

EducationClasses == << "school", "kindergarten", "university", "college" >>

education_count(st, prov) == CategoryCount(st, prov, PoisShp, EducationClasses)

PublicSafetyClasses ==
    << "police", "fire_station", "prison", "courthouse", "emergency_phone",
       "fire_hydrant", "emergency_access" >>

public_safety_count(st, prov) == CategoryCount(st, prov, PoisShp, PublicSafetyClasses)

GovernmentClasses ==
    << "town_hall", "embassy", "post_office", "post_box", "community_centre",
       "public_building" >>

government_institutions_count(st, prov) ==
    CategoryCount(st, prov, PoisShp, GovernmentClasses)

CateringClasses ==
    << "restaurant", "cafe", "fast_food", "bar", "pub", "biergarten", "food_court" >>

catering_count(st, prov) == CategoryCount(st, prov, PoisShp, CateringClasses)

TourismClasses ==
    << "tourist_info", "tourist_map", "tourist_board", "tourist_guidepost",
       "viewpoint", "attraction", "picnic_site" >>

tourism_count(st, prov) == CategoryCount(st, prov, PoisShp, TourismClasses)

\* res / (math.pi * (self.radius / 1000) ** 2), per km^2 in millionths; dividing
\* by the zero area of radius 0 raises ZeroDivisionError.
PerArea(c, radius) ==
    IF c.outcome # "ok" THEN c
    ELSE IF radius = 0
         THEN [c EXCEPT !.outcome = "ZeroDivisionError", !.value = NoValue]
         ELSE [c EXCEPT !.value = (c.value * 100000000)
                                      \div ((AreaMicro(radius) \div 1000) \div 10)]

\* self.business_services_count() + self.shop_count(), b being the first term.
PlusShopCount(b) ==
    IF b.outcome # "ok" THEN b ELSE PlusCount(b, shop_count(b.st, b.prov))

FirmDensity(st, prov) ==
    PerArea(PlusShopCount(business_services_count(st, prov)), prov.radius)

ParkingDensity(st, prov) == PerArea(parking_count(st, prov), prov.radius)

ThingsDensity(st, prov) == PerArea(building_count(st, prov), prov.radius)

(***************************************************************************)
(* The locker dataset.  env.lockers is the processed csv: the optional     *)
(* indicator columns cols and, per row, the coordinate (x = longitude,     *)
(* y = latitude), the region id as the csv stores it, and one value per    *)
(* indicator column.                                                       *)
(***************************************************************************)
\* int(float(s)) for the region ids the csv holds.
IntOfFloat(s) ==
    CASE s = "0"  -> 0
      [] s = "7"  -> 7
      [] s = "12" -> 12

\* Paczkomaty.__init__: one record per csv row (every row of the processed csv
\* carries a numeric location, so no row is skipped).
Paczkomaty_init(csv) ==
    [i \in DOMAIN csv.rows |->
        [lat |-> csv.rows[i].y, lon |-> csv.rows[i].x,
         wojewodztwo_id |-> csv.rows[i].wojewodztwo_id]]

\* The straight-line distance in coordinate space, scaled like _haversine:
\* get_province with the planar distance in place of the great-circle one.
PlanarDistance(lon1, lat1, lon2, lat2) ==
    MetersPerDeg * ISqrt((lon2 - lon1) * (lon2 - lon1) + (lat2 - lat1) * (lat2 - lat1))

\* Paczkomaty._haversine(lon1, lat1, lon2, lat2): 6371.0 * c, in metres
\* (kilometres with three decimals).
Paczkomaty_haversine(lon1, lat1, lon2, lat2) ==
    MetersPerDeg * ArcT[<<lat1, lon1, lat2, lon2>>]

MinDistanceInit == 999999

\* The loop of get_province over data[i..]: the running minimum and its id.
RECURSIVE ProvinceScan(_, _, _, _, _, _)
ProvinceScan(data, i, lat0, lon0, min_distance, result) ==
    IF i > Len(data) THEN result
    ELSE LET distance == Paczkomaty_haversine(lon0, lat0, data[i].lon, data[i].lat)
         IN IF distance < min_distance
            THEN ProvinceScan(data, i + 1, lat0, lon0, distance, data[i].wojewodztwo_id)
            ELSE ProvinceScan(data, i + 1, lat0, lon0, min_distance, result)

\* Paczkomaty.get_province(center) with center = (lat, lon).
get_province(data, center) ==
    LET result == ProvinceScan(data, 1, center[1], center[2],
                               MinDistanceInit * 1000, "None")
    IN IF result = "None"
       THEN [outcome |-> "TypeError", value |-> NoValue]
       ELSE [outcome |-> "ok", value |-> IntOfFloat(result)]

id_to_woj_bez_znakow ==
    << "dolnoslaskie", "kujawsko-pomorskie", "lubelskie", "lubuskie", "lodzkie",
       "malopolskie", "mazowieckie", "opolskie", "podkarpackie", "podlaskie",
       "pomorskie", "slaskie", "swietokrzyskie", "warminsko-mazurskie",
       "wielkopolskie", "zachodniopomorskie" >>

(***************************************************************************)
(* ScoreCalculator (score_calculator.py).                                  *)
(***************************************************************************)
EuclidD2(x1, y1, x2, y2) == (x2 - x1) * (x2 - x1) + (y2 - y1) * (y2 - y1)

KmPerDegree == 111

\* get_points_in_radius(lat, lon, radius_km): the rows whose Euclidean distance
\* in degrees is at most radius_km / 111.0 (radius in tenths of a metre).
get_points_in_radius(csv, lat, lon, radius) ==
    {i \in DOMAIN csv.rows :
        EuclidD2(lon, lat, csv.rows[i].x, csv.rows[i].y) * (KmPerDegree * KmPerDegree)
            <= (radius * radius) \div 100000000}

\* The index of rows nearest to (lon, lat) among idx, the lowest index on a tie.
NearestIn(csv, idx, lon, lat) ==
    CHOOSE i \in idx :
        \A j \in idx :
            LET di == EuclidD2(lon, lat, csv.rows[i].x, csv.rows[i].y)
                dj == EuclidD2(lon, lat, csv.rows[j].x, csv.rows[j].y)
            IN di < dj \/ (di = dj /\ i <= j)

\* tree.query(point, k): the k nearest rows, nearest first.
RECURSIVE TreeQuery(_, _, _, _, _)
TreeQuery(csv, idx, lon, lat, k) ==
    IF k = 0 \/ idx = {} THEN <<>>
    ELSE LET i == NearestIn(csv, idx, lon, lat)
         IN <<i>> \o TreeQuery(csv, idx \ {i}, lon, lat, k - 1)

\* The Euclidean distance in hundredths of a degree (rounded down).
EuclidCenti(csv, i, lon, lat) ==
    ISqrt(EuclidD2(lon, lat, csv.rows[i].x, csv.rows[i].y) * 10000)

DefaultK == 5

\* ScoreCalculator._get_nearest_points(lon, lat, k) of score_calculator.py.
SC_get_nearest_points(csv, lon, lat, k) ==
    LET indices == TreeQuery(csv, DOMAIN csv.rows, lon, lat, Min(k, Len(csv.rows)))
    IN [outcome   |-> "ok",
        indices   |-> indices,
        distances |-> [n \in DOMAIN indices |-> EuclidCenti(csv, indices[n], lon, lat)]]

\* ScoreCalculator._get_nearest_points(lon, lat, k) of parcel_analysis/core.py:
\* tree.query(point, k = k); sklearn's KDTree.query raises ValueError when k is
\* greater than the number of points of the tree.
Core_get_nearest_points(csv, lon, lat, k) ==
    IF k > Len(csv.rows)
    THEN [outcome |-> "ValueError", indices |-> <<>>, distances |-> <<>>]
    ELSE [outcome   |-> "ok",
          indices   |-> TreeQuery(csv, DOMAIN csv.rows, lon, lat, k),
          distances |-> [n \in 1..k |->
                            EuclidCenti(csv, TreeQuery(csv, DOMAIN csv.rows, lon, lat, k)[n],
                                        lon, lat)]]

\* 10^6 / (1 + e^(-10 (n/20 - 0.5))) for n = 0..20.
Sigmoid20 ==
    << 6693, 10987, 17986, 29312, 47426, 75858, 119203, 182426, 268941, 377541,
       500000, 622459, 731059, 817574, 880797, 924142, 952574, 970688, 982014,
       989013, 993307 >>

MaxCount == 20

\* _calculate_density_score(count, max_count = 20), in millionths.
calculate_density_score(count) == Sigmoid20[Min(count, MaxCount) + 1]

\* np.array([1.0, 0.8, 0.6, 0.4, 0.2]), in tenths.
Weights == <<10, 8, 6, 4, 2>>

\* _calculate_proximity_score(distances) of score_calculator.py, distances in
\* hundredths of a degree, the score in millionths.  weights * inv_distances
\* raises ValueError when the two arrays differ in length.
calculate_proximity_score(distances) ==
    IF Len(distances) = 0 THEN [outcome |-> "ok", value |-> 0]
    ELSE LET weights == SubSeq(Weights, 1, Min(Len(Weights), Len(distances)))
             inv_distances == [i \in DOMAIN distances |->
                                  100000000 \div (100 + distances[i])]
         IN IF Len(weights) # Len(inv_distances)
            THEN [outcome |-> "ValueError", value |-> NoValue]
            ELSE [outcome |-> "ok",
                  value |-> SumSeq([i \in DOMAIN weights |-> weights[i] * inv_distances[i]])
                                \div SumSeq(weights)]

\* _calculate_proximity_score(distances) of parcel_analysis/core.py.
Core_calculate_proximity_score(distances) ==
    IF Len(distances) = 0 THEN [outcome |-> "ok", value |-> 0]
    ELSE LET weights == SubSeq(Weights, 1, Min(Len(Weights), Len(distances)))
             inv_distances == [i \in DOMAIN distances |->
                                  100000000 \div (100 + distances[i])]
         IN IF Len(weights) # Len(inv_distances)
            THEN [outcome |-> "ValueError", value |-> NoValue]
            ELSE [outcome |-> "ok",
                  value |-> SumSeq([i \in DOMAIN weights |-> weights[i] * inv_distances[i]])
                                \div SumSeq(weights)]

\* The number of rows of rows[idx] whose column c holds v.
CountTrue(rows, idx, c, v) ==
    Cardinality({n \in DOMAIN idx : rows[idx[n]].attrs[c] = v})

\* ScoreCalculator.calculate_accessibility_score(gdf) of score_calculator.py on
\* the rows idx: the fraction [n, d] = (sum of the means) / max(1, count).
SC_calculate_accessibility_score(csv, idx) ==
    IF Len(idx) = 0 THEN [n |-> 0, d |-> 1]
    ELSE LET h247 == IF "location_247" \in csv.cols
                     THEN [score |-> CountTrue(csv.rows, idx, "location_247", TRUE), count |-> 1]
                     ELSE IF "opening_hours" \in csv.cols
                          THEN [score |-> CountTrue(csv.rows, idx, "opening_hours", "24/7"),
                                count |-> 1]
                          ELSE [score |-> 0, count |-> 0]
             easy == IF "easy_access_zone" \in csv.cols
                     THEN [score |-> CountTrue(csv.rows, idx, "easy_access_zone", TRUE),
                           count |-> 1]
                     ELSE [score |-> 0, count |-> 0]
         IN [n |-> h247.score + easy.score,
             d |-> Len(idx) * Max(1, h247.count + easy.count)]

\* The sum of the indicator means over three, whatever indicators are present:
\* calculate_accessibility_score with a fixed divisor.
AccessibilityOverThree(csv, idx) ==
    IF Len(idx) = 0 THEN [n |-> 0, d |-> 1]
    ELSE [n |-> (IF "location_247" \in csv.cols
                 THEN CountTrue(csv.rows, idx, "location_247", TRUE)
                 ELSE IF "opening_hours" \in csv.cols
                      THEN CountTrue(csv.rows, idx, "opening_hours", "24/7") ELSE 0)
                + (IF "easy_access_zone" \in csv.cols
                   THEN CountTrue(csv.rows, idx, "easy_access_zone", TRUE) ELSE 0)
                + (IF "payment_available" \in csv.cols
                   THEN CountTrue(csv.rows, idx, "payment_available", TRUE) ELSE 0),
          d |-> Len(idx) * 3]

\* calculate_accessibility_score that takes an empty record set for fully
\* accessible.
AccessibilityEmptyIsFull(csv, idx) ==
    IF Len(idx) = 0 THEN [n |-> 1, d |-> 1]
    ELSE AccessibilityOverThree(csv, idx)

\* LockerAnalysis.calculate_accessibility_score(gdf) of parcel_analysis/
\* analysis.py on the rows idx: the fraction [n, d] = (sum of the means) /
\* max(1, count).
LA_calculate_accessibility_score(csv, idx) ==
    IF Len(idx) = 0 THEN [n |-> 0, d |-> 1]
    ELSE LET h247 == IF "location_247" \in csv.cols
                     THEN [score |-> CountTrue(csv.rows, idx, "location_247", TRUE), count |-> 1]
                     ELSE IF "opening_hours" \in csv.cols
                          THEN [score |-> CountTrue(csv.rows, idx, "opening_hours", "24/7"),
                                count |-> 1]
                          ELSE [score |-> 0, count |-> 0]
             easy == IF "easy_access_zone" \in csv.cols
                     THEN [score |-> CountTrue(csv.rows, idx, "easy_access_zone", TRUE),
                           count |-> 1]
                     ELSE [score |-> 0, count |-> 0]
             pay  == IF "payment_available" \in csv.cols
                     THEN [score |-> CountTrue(csv.rows, idx, "payment_available", TRUE),
                           count |-> 1]
                     ELSE [score |-> 0, count |-> 0]
         IN [n |-> h247.score + easy.score + pay.score,
             d |-> Len(idx) * Max(1, h247.count + easy.count + pay.count)]

MaxFunctions == 15

\* function_counts of calculate_functionality_score, summed over the rows idx:
\* len(x) if isinstance(x, list) else 0.
FunctionCounts(csv, idx) ==
    SumSeq([n \in DOMAIN idx |->
               IF csv.rows[idx[n]].attrs["functions"].is_list
               THEN Len(csv.rows[idx[n]].attrs["functions"].items)
               ELSE 0])

\* calculate_functionality_score without min(..., 1.0).
FunctionalityUncapped(csv, idx) ==
    IF Len(idx) = 0 \/ "functions" \notin csv.cols THEN [n |-> 0, d |-> 1]
    ELSE [n |-> FunctionCounts(csv, idx), d |-> MaxFunctions * Len(idx)]

\* LockerAnalysis.calculate_functionality_score(gdf) on the rows idx: the
\* fraction [n, d] = min(avg_functions / 15, 1.0).
calculate_functionality_score(csv, idx) ==
    IF Len(idx) = 0 \/ "functions" \notin csv.cols THEN [n |-> 0, d |-> 1]
    ELSE IF FunctionCounts(csv, idx) > MaxFunctions * Len(idx)
         THEN [n |-> 1, d |-> 1]
         ELSE [n |-> FunctionCounts(csv, idx), d |-> MaxFunctions * Len(idx)]

\* _calculate_density_score(count, max_count = 20) of parcel_analysis/core.py,
\* in millionths.
Core_calculate_density_score(count) == Sigmoid20[Min(count, MaxCount) + 1]

\* normalize(value, min_val, max_val) = (value - min_val) / (max_val - min_val + 1e-6),
\* value and result in millionths (the divisor is carried in thousandths).
normalize(value, min_val, max_val) ==
    ((value - min_val * 1000000) * 1000)
        \div (((max_val - min_val) * 1000000 + 1) \div 1000)

\* calculate_supply_score that floors the residents but not the lockers.
SupplyLockersUnfloored(residents, lockers, radius) ==
    ISqrt((lockers * 100000000) \div (Max(residents, 1 * 1000) \div 10)
          + (lockers * 100000000) \div ((AreaMicro(radius) + 1000000) \div 10000)) * 1000

\* calculate_supply_score(residents, lockers, radius_km, alpha = 1, beta = 1),
\* residents in thousandths, the score in millionths (the square root is taken
\* to three decimals).
calculate_supply_score(residents, lockers, radius) ==
    LET area_km2 == AreaMicro(radius)
        residents_adj == Max(residents, 1 * 1000)
        lockers_adj == Max(lockers, 1)
        score == (lockers_adj * 100000000) \div (residents_adj \div 10)
                 + (lockers_adj * 100000000) \div ((area_km2 + 1000000) \div 10000)
    IN ISqrt(score) * 1000

\* get_residents_count(lat, lon, radius_km): a fresh Population per call.
get_residents_count(st, lat, lon, radius) ==
    LET center == Point(lon, lat)
        p == Population_init(st)
    IN IF p.outcome # "ok"
       THEN [st |-> p.st, outcome |-> p.outcome, value |-> NoValue]
       ELSE [st |-> p.st, outcome |-> "ok",
             value |-> calculate_population(p.df, center, radius).value]

\* The weighted sum that ends calculate_demand, parking being what
\* ObjProv.ParkingDensity() handed back.
demand_after_parking(density_score, proximity_score, accessibility_score, firmDensity, parking) ==
    IF parking.outcome # "ok"
    THEN [st |-> parking.st, outcome |-> parking.outcome, value |-> NoValue]
    ELSE [st |-> parking.st,
          outcome |-> "ok",
          value |-> 1 * density_score
                    + 1 * proximity_score
                    + 1 * accessibility_score
                    + 1 * normalize(firmDensity, 0, 1000)
                    + 1 * normalize(parking.value, 0, 500)]

\* calculate_demand from ObjProv.ParkingDensity() on, firm being what
\* ObjProv.FirmDensity() handed back.
demand_after_firm(density_score, proximity_score, accessibility_score, firm) ==
    IF firm.outcome # "ok"
    THEN [st |-> firm.st, outcome |-> firm.outcome, value |-> NoValue]
    ELSE demand_after_parking(density_score, proximity_score, accessibility_score,
                              firm.value, ParkingDensity(firm.st, firm.prov))

\* calculate_demand(lat, lon, lockers, radius_km): the demand score in millionths.
calculate_demand(st, csv, lat, lon, lockers, radius) ==
    LET near == SC_get_nearest_points(csv, lon, lat, DefaultK)
        density_score == calculate_density_score(lockers)
        proximity_score == calculate_proximity_score(near.distances)
        acc == SC_calculate_accessibility_score(csv, near.indices)
        accessibility_score == (acc.n * 1000000) \div acc.d
        paczkomat == Paczkomaty_init(csv)
        province_id == get_province(paczkomat, <<lat, lon>>)
        fail(s, e) == [st |-> s, outcome |-> e, value |-> NoValue]
    IN IF proximity_score.outcome # "ok" THEN fail(st, proximity_score.outcome)
       ELSE IF province_id.outcome # "ok" THEN fail(st, province_id.outcome)
       ELSE IF province_id.value \notin DOMAIN id_to_woj_bez_znakow
       THEN fail(st, "KeyError")
       ELSE
       LET ObjProv == Province_init(st, id_to_woj_bez_znakow[province_id.value],
                                    Point(lon, lat), radius)
       IN IF ObjProv.outcome # "ok" THEN fail(ObjProv.st, ObjProv.outcome)
          ELSE demand_after_firm(density_score, proximity_score.value,
                                 accessibility_score,
                                 FirmDensity(ObjProv.st, ObjProv.prov))

CapResult == 10

\* The ratio without the cap: calculate_result with min(..., 10) dropped.
UncappedRatio(demand_score, supply_score) == [n |-> demand_score, d |-> supply_score + 1]

\* min(demand_score / (supply_score + epsilon), 10) with epsilon = 1e-6: the
\* fraction [n, d], both scores in millionths.
CappedRatio(demand_score, supply_score) ==
    IF CapResult * (supply_score + 1) < demand_score
    THEN [n |-> CapResult, d |-> 1]
    ELSE [n |-> demand_score, d |-> supply_score + 1]

\* The last step of calculate_result, demand being what calculate_demand handed
\* back.
result_of(supply_score, demand) ==
    IF demand.outcome # "ok"
    THEN [st |-> demand.st, outcome |-> demand.outcome, value |-> NoValue,
          demand_score |-> NoValue, supply_score |-> NoValue]
    ELSE [st |-> demand.st,
          outcome |-> "ok",
          value |-> CappedRatio(demand.value, supply_score),
          demand_score |-> demand.value,
          supply_score |-> supply_score]

\* calculate_result(lat, lon, radius_km).
calculate_result(st, csv, lat, lon, radius) ==
    LET lockers == Cardinality(get_points_in_radius(csv, lat, lon, radius))
        residents == get_residents_count(st, lat, lon, radius)
        fail(s, e) == [st |-> s, outcome |-> e, value |-> NoValue,
                       demand_score |-> NoValue, supply_score |-> NoValue]
    IN IF residents.outcome # "ok" THEN fail(residents.st, residents.outcome)
       ELSE
       result_of(calculate_supply_score(residents.value, lockers, radius),
                 calculate_demand(residents.st, csv, lat, lon, lockers, radius))

(***************************************************************************)
(* server.py: GET /api/obszar.                                             *)
(***************************************************************************)
ObszarCounts ==
    << "shopCount", "building", "parking", "buissness", "health", "education",
       "public_safety", "goverment_institutions", "catering", "tourism" >>

CountFor(key, st, prov) ==
    CASE key = "shopCount"              -> shop_count(st, prov)
      [] key = "building"               -> building_count(st, prov)
      [] key = "parking"                -> parking_count(st, prov)
      [] key = "buissness"              -> business_services_count(st, prov)
      [] key = "health"                 -> health_count(st, prov)
      [] key = "education"              -> education_count(st, prov)
      [] key = "public_safety"          -> public_safety_count(st, prov)
      [] key = "goverment_institutions" -> government_institutions_count(st, prov)
      [] key = "catering"               -> catering_count(st, prov)
      [] key = "tourism"                -> tourism_count(st, prov)

\* result[key] = provinceObject.<count>() for the keys from position i on.
RECURSIVE FillCounts(_, _, _, _)
RECURSIVE FillNext(_, _, _)
FillCounts(i, st, prov, result) ==
    IF i > Len(ObszarCounts) THEN [st |-> st, outcome |-> "ok", value |-> result]
    ELSE FillNext(i, result, CountFor(ObszarCounts[i], st, prov))

\* result[ObszarCounts[i]] = c, then the keys after position i.
FillNext(i, result, c) ==
    IF c.outcome # "ok"
    THEN [st |-> c.st, outcome |-> c.outcome, value |-> NoValue]
    ELSE FillCounts(i + 1, c.st, c.prov, result @@ (ObszarCounts[i] :> c.value))

\* The response of get_obszar, counts being the ten category counts.
obszar_response(score, population, counts) ==
    IF counts.outcome # "ok"
    THEN [st |-> counts.st, outcome |-> counts.outcome, value |-> NoValue]
    ELSE [st |-> counts.st,
          outcome |-> "ok",
          value |-> counts.value @@ ("population" :> population) @@ ("score" :> score)]

\* get_obszar after calculate_result handed back score; paczkomaty is the
\* module-level Paczkomaty loaded when the server started.
obszar_after_score(csv, lat, lon, radius, score) ==
    LET fail(s, e) == [st |-> s, outcome |-> e, value |-> NoValue]
    IN IF score.outcome # "ok" THEN fail(score.st, score.outcome)
       ELSE
       LET population == get_residents_count(score.st, lat, lon, radius)
           province_id == get_province(Paczkomaty_init(csv), <<lat, lon>>)
       IN IF population.outcome # "ok" THEN fail(population.st, population.outcome)
          ELSE IF province_id.outcome # "ok" THEN fail(population.st, province_id.outcome)
          ELSE IF province_id.value \notin DOMAIN id_to_woj_bez_znakow
          THEN fail(population.st, "KeyError")
          ELSE
          LET provinceObject == Province_init(population.st,
                                              id_to_woj_bez_znakow[province_id.value],
                                              Point(lon, lat), radius)
          IN IF provinceObject.outcome # "ok"
             THEN fail(provinceObject.st, provinceObject.outcome)
             ELSE obszar_response(score.value, population.value,
                                  FillCounts(1, provinceObject.st, provinceObject.prov,
                                             <<>>))

\* get_obszar(lat, lon, radius), radius in tenths of a metre.
get_obszar(st, csv, lat, lon, radius) ==
    obszar_after_score(csv, lat, lon, radius, calculate_result(st, csv, lat, lon, radius))

(***************************************************************************)
(* Spec: one server process.  The data on disk is fixed at start; requests *)
(* arrive in any order.                                                    *)
(***************************************************************************)
MaxLockers == 2      \* rows of the locker csv
MaxCells == 1        \* cells of the population grid
MaxGridReads == 1    \* requests are served while the grid was read fewer times

Here == Point(0, 60)
There == Point(60, 60)

\* Locker rows: a locker at Here in region 7 or in no recognised region, a
\* locker at There in region 12.
LockerSites ==
    { [x |-> 0, y |-> 60, wojewodztwo_id |-> "7"],
      [x |-> 0, y |-> 60, wojewodztwo_id |-> "0"],
      [x |-> 60, y |-> 60, wojewodztwo_id |-> "12"] }

WithFlags(site, cols) ==
    [x |-> site.x, y |-> site.y, wojewodztwo_id |-> site.wojewodztwo_id,
     attrs |-> [c \in cols |-> IF c = "location_247" THEN TRUE ELSE site.x = 0]]

ServiceLockers ==
    { [cols |-> cols, rows |-> [i \in DOMAIN sites |-> WithFlags(sites[i], cols)]] :
        cols \in {{"location_247", "easy_access_zone"}},
        sites \in {q \in SeqsUpTo(LockerSites, MaxLockers) \ {<<>>} :
                      \A i, j \in DOMAIN q : q[i] = q[j] => i = j} }

ServiceGrids ==
    {[present |-> FALSE, rows |-> <<>>]} \cup
    {[present |-> TRUE, rows |-> rows] :
        rows \in SeqsUpTo({[center |-> Here, RES |-> 40]}, MaxCells)}

Feature(p, fclass) == [geometry |-> p, attrs |-> [c \in {"fclass"} |-> fclass]]

Layer(rows) == [cols |-> {"fclass"}, rows |-> rows]

LayerContent(name) ==
    CASE name = BuildingsShp -> Layer(<<Feature(Here, "building")>>)
      [] name = PoisShp      -> Layer(<<Feature(Here, "kiosk"), Feature(Here, "car_wash")>>)
      [] name = TransportShp -> Layer(<<Feature(Here, "taxi_rank")>>)
      [] name = TrafficShp   -> Layer(<<Feature(There, "fuel")>>)

LayerNames == {BuildingsShp, PoisShp, TransportShp, TrafficShp}

\* The regions on disk: both region directories with every layer, or
\* mazowieckie short of some layers, or slaskie without its directory.
Osm(dirs, missing) ==
    [dirs  |-> dirs,
     files |-> [f \in {Path(d, n) : d \in dirs, n \in LayerNames} \ missing |->
                   LayerContent(f.name)]]

ServiceOsm ==
    { Osm({"mazowieckie", "slaskie"}, {}),
      Osm({"mazowieckie", "slaskie"}, {Path("mazowieckie", PoisShp)}),
      Osm({"mazowieckie", "slaskie"}, {Path("mazowieckie", BuildingsShp)}),
      Osm({"mazowieckie", "slaskie"}, {Path("mazowieckie", n) : n \in LayerNames}),
      Osm({"mazowieckie"}, {}) }

QueryPoints == {Here, There}

\* Radii in tenths of a metre: 0 and 4 km.
QueryRadii == {0, 40000}

Init ==
    /\ env \in [lockers : ServiceLockers, grid : ServiceGrids, osm : ServiceOsm]
    /\ proc = "running"
    /\ parseCount = <<>>
    /\ gridReads = 0
    /\ ret = NoRet

Serving == proc = "running" /\ gridReads < MaxGridReads

Apply(op, p, radius, r) ==
    /\ proc' = r.st.proc
    /\ parseCount' = r.st.parseCount
    /\ gridReads' = r.st.gridReads
    /\ ret' = [op |-> op, lat |-> p.y, lon |-> p.x, radius |-> radius,
               outcome |-> r.outcome, value |-> r.value]
    /\ UNCHANGED env

\* What the model records of a calculate_result call: the result with the two
\* scores it was computed from.
Scored(r) ==
    [st |-> r.st, outcome |-> r.outcome,
     value |-> [result |-> r.value, demand_score |-> r.demand_score,
                supply_score |-> r.supply_score]]

CalculateResult ==
    /\ Serving
    /\ \E p \in QueryPoints, radius \in QueryRadii :
          Apply("calculate_result", p, radius,
                Scored(calculate_result(World, env.lockers, p.y, p.x, radius)))

GetResidentsCount ==
    /\ Serving
    /\ \E p \in QueryPoints, radius \in QueryRadii :
          Apply("get_residents_count", p, radius,
                get_residents_count(World, p.y, p.x, radius))

GetObszar ==
    /\ Serving
    /\ \E p \in QueryPoints, radius \in QueryRadii :
          Apply("get_obszar", p, radius, get_obszar(World, env.lockers, p.y, p.x, radius))

Next == CalculateResult \/ GetResidentsCount \/ GetObszar

Spec == Init /\ [][Next]_vars

(***************************************************************************)
(* Claims about GeoObject.count_objects (SpecCount).                       *)
(***************************************************************************)
\* The great-circle distance between two points: latitude is y, longitude is x.
GreatCircle(p, q) == TenthsPerDeg * ArcT[<<p.y, p.x, q.y, q.x>>]

\* A feature matches a filter map when every pair equals its attribute.
Matches(row, fs) ==
    fs = NoFilter \/
    \A k \in DOMAIN fs : /\ fs[k][1] \in DOMAIN row.attrs
                         /\ row.attrs[fs[k][1]] = fs[k][2]

\* C2: count returns exactly the number of features whose centroid is within
\* the radius of the center (boundary included) and that match every pair of
\* the filter map; with no filter map, the number of features within the radius.
C2_CountIsExact ==
    ret.op = "count_objects" =>
        /\ ret.outcome = "ok"
        /\ ret.value = Cardinality({i \in DOMAIN env.gdf.rows :
                            /\ GreatCircle(ret.center, env.gdf.rows[i].center) <= ret.radius
                            /\ Matches(env.gdf.rows[i], ret.attr_filters)})

\* C3: a filter whose key is no attribute of the layer is not an error: the
\* call returns 0 and does not raise.
C3_UnknownKeyYieldsZero ==
    ( /\ ret.op = "count_objects"
      /\ ret.attr_filters # NoFilter
      /\ \E k \in DOMAIN ret.attr_filters : ret.attr_filters[k][1] \notin env.gdf.cols )
    => (ret.outcome = "ok" /\ ret.value = 0)

(***************************************************************************)
(* Claims about the scoring service (Spec).                                *)
(***************************************************************************)
\* C1: whenever calculate_result returns, the result is
\* min(demand_score / (supply_score + 1e-6), 10): it is never greater than 10,
\* it is the ratio when the ratio is at most 10, and it is 10 otherwise.
C1_ResultIsCappedRatio ==
    (ret.op = "calculate_result" /\ ret.outcome = "ok") =>
        LET result == ret.value.result
            demand_score == ret.value.demand_score
            supply_score == ret.value.supply_score
        IN /\ result.n <= CapResult * result.d
           /\ IF demand_score <= CapResult * (supply_score + 1)
              THEN result = [n |-> demand_score, d |-> supply_score + 1]
              ELSE result = [n |-> CapResult, d |-> 1]

\* C1, its case: calculate_result returned for scores whose ratio exceeds 10.
C1_Witness ==
    /\ ret.op = "calculate_result"
    /\ ret.outcome = "ok"
    /\ ret.value.demand_score > CapResult * (ret.value.supply_score + 1)
    /\ ret.value.result = [n |-> CapResult, d |-> 1]

\* C4: a layer file that is missing never ends the process; the failed load is
\* an error the caller can recover from.
C4_FailedLoadNeverExits == proc = "running" /\ (ret.op # "none" => ret.outcome # "exit")

\* C5: over any sequence of requests served by one process, each region layer
\* path is parsed at most once.
C5_LayerParsedAtMostOnce == \A f \in DOMAIN parseCount : parseCount[f] <= 1

\* C6: over any sequence of requests served by one process, the population
\* grid file is read and parsed a single time.
C6_GridReadOnce == gridReads <= 1

(***************************************************************************)
(* SpecResolve: Paczkomaty.get_province on every small locker dataset and  *)
(* every query point of the grid.                                          *)
(***************************************************************************)
MaxRecords == 2      \* records of the locker dataset handed to get_province

ResolveRows ==
    { [x |-> 60, y |-> 60, wojewodztwo_id |-> "7"],
      [x |-> 60, y |-> 60, wojewodztwo_id |-> "12"],
      [x |-> 0,  y |-> 30, wojewodztwo_id |-> "7"],
      [x |-> 0,  y |-> 30, wojewodztwo_id |-> "12"],
      [x |-> 0,  y |-> 60, wojewodztwo_id |-> "0"] }

InitResolve ==
    /\ env \in {[data |-> Paczkomaty_init([rows |-> rows])] :
                   rows \in SeqsUpTo(ResolveRows, MaxRecords)}
    /\ proc = "running"
    /\ parseCount = <<>>
    /\ gridReads = 0
    /\ ret = NoRet

GetProvince ==
    \E lat \in Deg, lon \in Deg :
        LET r == get_province(env.data, <<lat, lon>>)
        IN /\ ret' = [op |-> "get_province", lat |-> lat, lon |-> lon,
                      outcome |-> r.outcome, value |-> r.value]
           /\ UNCHANGED <<env, proc, parseCount, gridReads>>

NextResolve == GetProvince

SpecResolve == InitResolve /\ [][NextResolve]_vars

\* The squared Euclidean distance in coordinate space from the query point of
\* ret to record i, and the great-circle distance in metres.
PlanarD2(i) ==
    (env.data[i].lon - ret.lon) * (env.data[i].lon - ret.lon)
    + (env.data[i].lat - ret.lat) * (env.data[i].lat - ret.lat)

GreatCircleM(i) ==
    MetersPerDeg * ArcT[<<ret.lat, ret.lon, env.data[i].lat, env.data[i].lon>>]

\* C7 as stated: for a non-empty dataset, resolve returns the region
\* identifier of a record whose Euclidean distance in coordinate space to the
\* point is minimal over the whole dataset.
C7_NearestIsEuclidean ==
    (ret.op = "get_province" /\ env.data # <<>>) =>
        /\ ret.outcome = "ok"
        /\ \E i \in DOMAIN env.data :
              /\ ret.value = IntOfFloat(env.data[i].wojewodztwo_id)
              /\ \A j \in DOMAIN env.data : PlanarD2(i) <= PlanarD2(j)

\* C7 as amended: for a non-empty dataset, resolve returns the region identifier
\* of the first record, in dataset order, whose great-circle (haversine)
\* distance to the point is minimal over the whole dataset, with no cutoff.
C7_NearestIsGreatCircle ==
    (ret.op = "get_province" /\ env.data # <<>>) =>
        /\ ret.outcome = "ok"
        /\ \E i \in DOMAIN env.data :
              /\ ret.value = IntOfFloat(env.data[i].wojewodztwo_id)
              /\ \A j \in DOMAIN env.data : GreatCircleM(i) <= GreatCircleM(j)
              /\ \A j \in 1..(i - 1) : GreatCircleM(i) < GreatCircleM(j)

\* C7, its case: resolve answered on a dataset whose record nearest on the
\* sphere is not the record nearest in the plane, and their regions differ.
C7_Witness ==
    /\ ret.op = "get_province"
    /\ ret.outcome = "ok"
    /\ \E i, j \in DOMAIN env.data :
          /\ GreatCircleM(i) < GreatCircleM(j)
          /\ PlanarD2(j) < PlanarD2(i)
          /\ env.data[i].wojewodztwo_id # env.data[j].wojewodztwo_id
          /\ ret.value = IntOfFloat(env.data[i].wojewodztwo_id)

(***************************************************************************)
(* SpecNearest: _get_nearest_points of both score calculators on every     *)
(* small locker set, query point and k.                                    *)
(***************************************************************************)
MaxPoints == 2       \* points of the KD-tree
MaxK == 3            \* the k asked for

NearestSites == {Point(0, 60), Point(60, 60), Point(0, 30), Point(30, 0)}

InitNearest ==
    /\ env \in {[csv |-> [cols |-> {}, rows |-> rows]] :
                   rows \in SeqsUpTo(NearestSites, MaxPoints) \ {<<>>}}
    /\ proc = "running"
    /\ parseCount = <<>>
    /\ gridReads = 0
    /\ ret = NoRet

Asked(op, p, k, r) ==
    /\ ret' = [op |-> op, lon |-> p.x, lat |-> p.y, k |-> k, outcome |-> r.outcome,
               indices |-> r.indices, distances |-> r.distances]
    /\ UNCHANGED <<env, proc, parseCount, gridReads>>

CoreGetNearestPoints ==
    \E p \in QueryPoints, k \in 1..MaxK :
        Asked("core._get_nearest_points", p, k, Core_get_nearest_points(env.csv, p.x, p.y, k))

GetNearestPoints ==
    \E p \in QueryPoints, k \in 1..MaxK :
        Asked("_get_nearest_points", p, k, SC_get_nearest_points(env.csv, p.x, p.y, k))

NextNearest == CoreGetNearestPoints \/ GetNearestPoints

SpecNearest == InitNearest /\ [][NextNearest]_vars

\* C8: for a locker set of N points and any k >= 1, nearest returns min(k, N)
\* distinct points with their indices, in ascending order of distance; when
\* N < k it returns all N points and does not fail.
C8_NearestReturnsMinKN ==
    ret.op \in {"core._get_nearest_points", "_get_nearest_points"} =>
        /\ ret.outcome = "ok"
        /\ Len(ret.indices) = Min(ret.k, Len(env.csv.rows))
        /\ Len(ret.distances) = Len(ret.indices)
        /\ \A m, n \in DOMAIN ret.indices :
              /\ ret.indices[m] \in DOMAIN env.csv.rows
              /\ m # n => ret.indices[m] # ret.indices[n]
              /\ m < n => ret.distances[m] <= ret.distances[n]

(***************************************************************************)
(* SpecProx: _calculate_proximity_score of both score calculators on every *)
(* short distance list.                                                    *)
(***************************************************************************)
MaxDistances == 6    \* length of the distance list

\* Distances in hundredths of a degree: 0 and 1 degree.
DistanceValues == {0, 100}

InitProx ==
    /\ env \in {[distances |-> d] : d \in SeqsUpTo(DistanceValues, MaxDistances)}
    /\ proc = "running"
    /\ parseCount = <<>>
    /\ gridReads = 0
    /\ ret = NoRet

Scored1(op, r) ==
    /\ ret' = [op |-> op, outcome |-> r.outcome, value |-> r.value]
    /\ UNCHANGED <<env, proc, parseCount, gridReads>>

CoreCalculateProximityScore ==
    Scored1("core._calculate_proximity_score",
            Core_calculate_proximity_score(env.distances))

CalculateProximityScore ==
    Scored1("_calculate_proximity_score", calculate_proximity_score(env.distances))

NextProx == CoreCalculateProximityScore \/ CalculateProximityScore

SpecProx == InitProx /\ [][NextProx]_vars

\* sum(w_i / (1 + d_i)) / sum(w_i) over the first m distances, in millionths.
WeightedInverse(distances, m) ==
    SumSeq([i \in 1..m |-> Weights[i] * (100000000 \div (100 + distances[i]))])
        \div SumSeq([i \in 1..m |-> Weights[i]])

\* C9: for a distance list of any length n >= 1, including n > 5,
\* proximity_score uses the nearest min(n, 5) distances with the weights
\* truncated to that count and returns sum(w_i / (1 + d_i)) / sum(w_i), without
\* raising.
C9_ProximityOfAnyLength ==
    ( /\ ret.op \in {"core._calculate_proximity_score", "_calculate_proximity_score"}
      /\ Len(env.distances) >= 1 )
    => /\ ret.outcome = "ok"
       /\ ret.value = WeightedInverse(env.distances, Min(Len(env.distances), Len(Weights)))

(***************************************************************************)
(* SpecAcc: LockerAnalysis.calculate_accessibility_score on every small    *)
(* record set, with every choice of indicator columns.                     *)
(***************************************************************************)
MaxRows == 2         \* records of the set

IndicatorCols == {"location_247", "opening_hours", "easy_access_zone", "payment_available"}

\* Records with a boolean per flag column and opening hours "24/7" or "08-16".
RecordsWith(cols) ==
    {[attrs |-> flags @@ hours] :
        flags \in [cols \ {"opening_hours"} -> BOOLEAN],
        hours \in [cols \cap {"opening_hours"} -> {"24/7", "08-16"}]}

InitAcc ==
    /\ env \in UNION {[csv : [cols : {cols}, rows : SeqsUpTo(RecordsWith(cols), MaxRows)]] :
                         cols \in SUBSET IndicatorCols}
    /\ proc = "running"
    /\ parseCount = <<>>
    /\ gridReads = 0
    /\ ret = NoRet

\* The whole frame: every row, in order.
AllRows(csv) == [n \in DOMAIN csv.rows |-> n]

CalculateAccessibilityScore ==
    /\ ret' = [op |-> "calculate_accessibility_score", outcome |-> "ok",
               value |-> LA_calculate_accessibility_score(env.csv, AllRows(env.csv))]
    /\ UNCHANGED <<env, proc, parseCount, gridReads>>

\* ScoreCalculator.calculate_accessibility_score of score_calculator.py on the
\* same record set.
ScCalculateAccessibilityScore ==
    /\ ret' = [op |-> "sc.calculate_accessibility_score", outcome |-> "ok",
               value |-> SC_calculate_accessibility_score(env.csv, AllRows(env.csv))]
    /\ UNCHANGED <<env, proc, parseCount, gridReads>>

NextAcc == CalculateAccessibilityScore \/ ScCalculateAccessibilityScore

SpecAcc == InitAcc /\ [][NextAcc]_vars

\* The indicators present in the record set: the 24/7 flag (location_247, or
\* in its absence opening_hours = "24/7"), the easy-access flag, the
\* payment-available flag; and the number of records an indicator holds for.
Present ==
    {ind \in {"h247", "easy", "pay"} :
        \/ ind = "h247" /\ {"location_247", "opening_hours"} \cap env.csv.cols # {}
        \/ ind = "easy" /\ "easy_access_zone" \in env.csv.cols
        \/ ind = "pay"  /\ "payment_available" \in env.csv.cols}

Holds(ind, row) ==
    CASE ind = "h247" -> IF "location_247" \in env.csv.cols
                         THEN row.attrs["location_247"] = TRUE
                         ELSE row.attrs["opening_hours"] = "24/7"
      [] ind = "easy" -> row.attrs["easy_access_zone"] = TRUE
      [] ind = "pay"  -> row.attrs["payment_available"] = TRUE

HoldsCount ==
    Cardinality({<<ind, i>> \in Present \X DOMAIN env.csv.rows : Holds(ind, env.csv.rows[i])})

\* C10: for a non-empty record set, accessibility_score is the sum of the means
\* of the indicators present divided by the number of indicators present, and
\* 0 when none of the three indicators is present.
C10_AccessibilityIsMeanOfPresent ==
    (ret.op = "calculate_accessibility_score" /\ env.csv.rows # <<>>) =>
        IF Present = {}
        THEN ret.value.n = 0
        ELSE ret.value.n * (Len(env.csv.rows) * Cardinality(Present))
                = HoldsCount * ret.value.d

\* C10, its case: a record set with exactly two of the three indicators
\* present, each holding for some record, was scored.
C10_Witness ==
    /\ ret.op = "calculate_accessibility_score"
    /\ env.csv.rows # <<>>
    /\ Cardinality(Present) = 2
    /\ \A ind \in Present : \E i \in DOMAIN env.csv.rows : Holds(ind, env.csv.rows[i])
    /\ ret.value.n * 2 * Len(env.csv.rows) = HoldsCount * ret.value.d
    /\ ret.value.n > 0

\* C11: for every record set, the accessibility term of demand_score
\* (ScoreCalculator.calculate_accessibility_score) equals
\* LockerAnalysis.calculate_accessibility_score of that record set, including
\* record sets that carry a payment-available flag.
C11_DemandAccessibilityIsTheSpecs ==
    ret.op = "sc.calculate_accessibility_score" =>
        ret.value.n * LA_calculate_accessibility_score(env.csv, AllRows(env.csv)).d
            = LA_calculate_accessibility_score(env.csv, AllRows(env.csv)).n * ret.value.d

(***************************************************************************)
(* SpecGrid: the grid scans of parcel_analysis (find_optimal_location,     *)
(* create_grid_heatmap).  The score calculator is handed in by the caller: *)
(* env.calc maps each point (lat, lon) of the lattice to what              *)
(* calculate_score does there, raising or handing back an overall_score.   *)
(* Coordinates are hundredths of a degree, scores thousandths.             *)
(***************************************************************************)
MaxGrid == 2         \* grid_size

\* (max - min) / (grid_size - 1) if grid_size > 1 else 0.
GridStep(lo, hi, grid_size) == IF grid_size > 1 THEN (hi - lo) \div (grid_size - 1) ELSE 0

\* The point of the loop indices i, j: (lat_min + i * lat_step, lon_min + j * lon_step).
GridPoint(bounds, grid_size, i, j) ==
    << bounds.lat_min + i * GridStep(bounds.lat_min, bounds.lat_max, grid_size),
       bounds.lon_min + j * GridStep(bounds.lon_min, bounds.lon_max, grid_size) >>

\* The point of a scan with the longitude index outer.
CellPointLonOuter(bounds, grid_size, i, j) ==
    << bounds.lat_min + j * GridStep(bounds.lat_min, bounds.lat_max, grid_size),
       bounds.lon_min + i * GridStep(bounds.lon_min, bounds.lon_max, grid_size) >>

\* (lat, lon) in the body of "for i in range(grid_size): for j in
\* range(grid_size)".
CellPoint(bounds, grid_size, i, j) == GridPoint(bounds, grid_size, i, j)

NoLocation == <<>>

\* best_score = -1, in thousandths.
BestScoreInit == 0 - 1000

\* The loop body that keeps the latest of equal scores (score >= best_score).
EvaluateKeepLast(calc, point, scan) ==
    IF calc[point].raises
    THEN [outcome |-> "Exception", optimal_location |-> NoLocation,
          optimal_score |-> BestScoreInit, all_evaluated_locations |-> <<>>]
    ELSE [outcome |-> "ok",
          optimal_score |-> IF calc[point].overall_score >= scan.optimal_score
                            THEN calc[point].overall_score ELSE scan.optimal_score,
          optimal_location |-> IF calc[point].overall_score >= scan.optimal_score
                               THEN point ELSE scan.optimal_location,
          all_evaluated_locations |->
              Append(scan.all_evaluated_locations,
                     [coordinates |-> point, score |-> calc[point].overall_score])]

\* The loop body of find_optimal_location at one point, scan holding best_score,
\* best_location and all_scores under the names they are returned by; an
\* exception raised by calculate_score leaves the function.
Evaluate(calc, point, scan) ==
    IF calc[point].raises
    THEN [outcome |-> "Exception", optimal_location |-> NoLocation,
          optimal_score |-> BestScoreInit, all_evaluated_locations |-> <<>>]
    ELSE [outcome |-> "ok",
          optimal_score |-> IF calc[point].overall_score > scan.optimal_score
                            THEN calc[point].overall_score ELSE scan.optimal_score,
          optimal_location |-> IF calc[point].overall_score > scan.optimal_score
                               THEN point ELSE scan.optimal_location,
          all_evaluated_locations |->
              Append(scan.all_evaluated_locations,
                     [coordinates |-> point, score |-> calc[point].overall_score])]

\* The inner loop, "for j in range(grid_size)", from j on.
RECURSIVE OptimalRow(_, _, _, _, _, _)
OptimalRow(calc, bounds, grid_size, i, j, scan) ==
    IF scan.outcome # "ok" \/ j >= grid_size THEN scan
    ELSE OptimalRow(calc, bounds, grid_size, i, j + 1,
                    Evaluate(calc, CellPoint(bounds, grid_size, i, j), scan))

\* The outer loop, "for i in range(grid_size)", from i on.
RECURSIVE OptimalScan(_, _, _, _, _)
OptimalScan(calc, bounds, grid_size, i, scan) ==
    IF scan.outcome # "ok" \/ i >= grid_size THEN scan
    ELSE OptimalScan(calc, bounds, grid_size, i + 1,
                     OptimalRow(calc, bounds, grid_size, i, 0, scan))

\* LocationOptimizer.find_optimal_location(lat_min, lat_max, lon_min, lon_max,
\* grid_size, radius, score_calculator).
find_optimal_location(calc, bounds, grid_size) ==
    OptimalScan(calc, bounds, grid_size, 0,
                [outcome |-> "ok", optimal_location |-> NoLocation,
                 optimal_score |-> BestScoreInit, all_evaluated_locations |-> <<>>])

\* The loop body of create_grid_heatmap at one point: a calculate_score that
\* raises, or a result without the metric, appends nothing.
Sample(calc, point, metric, heat_data) ==
    IF calc[point].raises \/ metric \notin DOMAIN calc[point]
    THEN heat_data
    ELSE Append(heat_data, <<point[1], point[2], calc[point][metric]>>)

\* The inner loop of create_grid_heatmap from j on.
RECURSIVE HeatRow(_, _, _, _, _, _, _)
HeatRow(calc, bounds, grid_size, metric, i, j, heat_data) ==
    IF j >= grid_size THEN heat_data
    ELSE HeatRow(calc, bounds, grid_size, metric, i, j + 1,
                 Sample(calc, CellPoint(bounds, grid_size, i, j), metric, heat_data))

\* The outer loop of create_grid_heatmap from i on.
RECURSIVE HeatScan(_, _, _, _, _, _)
HeatScan(calc, bounds, grid_size, metric, i, heat_data) ==
    IF i >= grid_size THEN heat_data
    ELSE HeatScan(calc, bounds, grid_size, metric, i + 1,
                  HeatRow(calc, bounds, grid_size, metric, i, 0, heat_data))

\* LockerVisualization.create_grid_heatmap(calculator, bounds, grid_size,
\* metric, radius): the samples handed to HeatMap.
create_grid_heatmap(calc, bounds, grid_size, metric) ==
    HeatScan(calc, bounds, grid_size, metric, 0, <<>>)

\* Bounding boxes: a square and one with lat_min = lat_max.
GridBounds ==
    { [lat_min |-> 0, lat_max |-> 12, lon_min |-> 0, lon_max |-> 12],
      [lat_min |-> 6, lat_max |-> 6, lon_min |-> 0, lon_max |-> 12] }

OverallScores == {300, 700}

CellResults ==
    {[raises |-> TRUE, overall_score |-> 0]} \cup
    [raises : {FALSE}, overall_score : OverallScores]

Lattice(bounds, grid_size) ==
    {GridPoint(bounds, grid_size, i, j) : i, j \in 0..(grid_size - 1)}

Metrics == {"overall_score", "coverage_score"}

InitGrid ==
    /\ env \in UNION {[bounds : {b}, grid_size : {n}, calc : [Lattice(b, n) -> CellResults]] :
                         b \in GridBounds, n \in 1..MaxGrid}
    /\ proc = "running"
    /\ parseCount = <<>>
    /\ gridReads = 0
    /\ ret = NoRet

FindOptimalLocation ==
    /\ ret' = [op |-> "find_optimal_location",
               result |-> find_optimal_location(env.calc, env.bounds, env.grid_size)]
    /\ UNCHANGED <<env, proc, parseCount, gridReads>>

CreateGridHeatmap ==
    \E metric \in Metrics :
        /\ ret' = [op |-> "create_grid_heatmap", metric |-> metric,
                   result |-> create_grid_heatmap(env.calc, env.bounds, env.grid_size,
                                                  metric)]
        /\ UNCHANGED <<env, proc, parseCount, gridReads>>

NextGrid == FindOptimalLocation \/ CreateGridHeatmap

SpecGrid == InitGrid /\ [][NextGrid]_vars

\* The k-th point of the row-major order of the lattice.
PassPoint(bounds, grid_size, k) ==
    GridPoint(bounds, grid_size, (k - 1) \div grid_size, (k - 1) % grid_size)

\* Every pass of the scan was scored.
AllScored == \A p \in DOMAIN env.calc : ~env.calc[p].raises

\* The score calculate_score hands back at pass k.
PassScore(k) == env.calc[PassPoint(env.bounds, env.grid_size, k)].overall_score

\* Pass k holds the highest score and no earlier pass holds it.
FirstHighest(k) ==
    /\ \A m \in 1..(env.grid_size * env.grid_size) : PassScore(m) <= PassScore(k)
    /\ \A m \in 1..(k - 1) : PassScore(m) < PassScore(k)

\* C12: when every cell of the grid has an overall score, find_optimal_location
\* returns the highest-scoring cell and its score, and of several cells with the
\* highest score the first in row-major order (latitude outer, longitude inner).
C12_OptimalIsFirstHighest ==
    (ret.op = "find_optimal_location" /\ AllScored) =>
        /\ ret.result.outcome = "ok"
        /\ \E k \in 1..(env.grid_size * env.grid_size) :
              /\ FirstHighest(k)
              /\ ret.result.optimal_location = PassPoint(env.bounds, env.grid_size, k)
              /\ ret.result.optimal_score = PassScore(k)

\* Two different cells share the highest score, after a lower-scored first cell.
C12_Witness ==
    /\ ret.op = "find_optimal_location"
    /\ AllScored
    /\ env.grid_size = 2
    /\ PassScore(1) = 300
    /\ PassScore(2) = 700
    /\ PassScore(4) = 700
    /\ PassPoint(env.bounds, env.grid_size, 2) # PassPoint(env.bounds, env.grid_size, 4)
    /\ ret.result.optimal_location = PassPoint(env.bounds, env.grid_size, 2)

\* The lattice point with latitude index i and longitude index j, and its place
\* in row-major order.
LatticePoint(i, j) == GridPoint(env.bounds, env.grid_size, i, j)
RowMajorPlace(i, j) == i * env.grid_size + j + 1

\* Place k of the row-major order, as a lattice point.
PointAtPlace(k) == LatticePoint((k - 1) \div env.grid_size, (k - 1) % env.grid_size)

\* calculate_score handed back a value of the metric at place k.
ComputedAt(k) ==
    /\ ~env.calc[PointAtPlace(k)].raises
    /\ ret.metric \in DOMAIN env.calc[PointAtPlace(k)]

\* The places whose score was computed, in row-major order.
ComputedPlaces ==
    SelectSeq([k \in 1..(env.grid_size * env.grid_size) |-> k], ComputedAt)

\* C19: a grid scan visits the n*n lattice points in row-major order (latitude
\* index outer, longitude index inner): all_evaluated_locations of
\* find_optimal_location has exactly n*n entries in that order, and the samples
\* of create_grid_heatmap are, in that same order, one (lat, lon, value) for each
\* cell whose score was computed.
C19_ScanIsRowMajor ==
    /\ (ret.op = "find_optimal_location" /\ ret.result.outcome = "ok") =>
          /\ Len(ret.result.all_evaluated_locations) = env.grid_size * env.grid_size
          /\ \A i, j \in 0..(env.grid_size - 1) :
                ret.result.all_evaluated_locations[RowMajorPlace(i, j)]
                    = [coordinates |-> LatticePoint(i, j),
                       score |-> env.calc[LatticePoint(i, j)].overall_score]
    /\ ret.op = "create_grid_heatmap" =>
          /\ Len(ret.result) = Len(ComputedPlaces)
          /\ \A n \in 1..Len(ComputedPlaces) :
                ret.result[n] = << PointAtPlace(ComputedPlaces[n])[1],
                                  PointAtPlace(ComputedPlaces[n])[2],
                                  env.calc[PointAtPlace(ComputedPlaces[n])][ret.metric] >>

\* A heatmap over a 2 x 2 lattice whose third cell raised: three samples.
C19_Witness ==
    /\ ret.op = "create_grid_heatmap"
    /\ ret.metric = "overall_score"
    /\ env.grid_size = 2
    /\ env.bounds.lat_min < env.bounds.lat_max
    /\ env.calc[LatticePoint(1, 0)].raises
    /\ Len(ret.result) = 3
    /\ ret.result[3][1] = env.bounds.lat_max
    /\ ret.result[3][2] = env.bounds.lon_max

\* C13: no scoring operation divides by zero for a radius >= 0, a locker count
\* >= 0 and residents >= 0: no call of the service ends in ZeroDivisionError.
C13_NoDivisionByZero ==
    ret.op \in {"calculate_result", "get_residents_count", "get_obszar"} =>
        ret.outcome # "ZeroDivisionError"

\* The region the service resolves for the point of the last request.
ResolvedRegion == get_province(Paczkomaty_init(env.lockers), <<ret.lat, ret.lon>>)

\* The last request was for a region that has no layer file on disk, the
\* population grid being in place.
RegionWithoutLayers ==
    /\ ret.op \in {"calculate_result", "get_obszar"}
    /\ env.grid.present
    /\ ResolvedRegion.outcome = "ok"
    /\ ResolvedRegion.value \in DOMAIN id_to_woj_bez_znakow
    /\ \A f \in DOMAIN env.osm.files : f.dir # id_to_woj_bez_znakow[ResolvedRegion.value]

\* C14: for a region that has no matching layer files, constructing the Province
\* and calling its category counts yields 0 for every category; the aggregation
\* does not raise and does not stop the process.
C14_NoLayersYieldZero ==
    RegionWithoutLayers =>
        /\ proc = "running"
        /\ ret.outcome \notin {"exit", "FileNotFoundError"}
        /\ (ret.op = "get_obszar" /\ ret.outcome = "ok") =>
              \A n \in DOMAIN ObszarCounts : ret.value[ObszarCounts[n]] = 0

\* C15: once a layer is loaded its stored data is read-only: no count_objects
\* call writes to, adds to or changes the frame the GeoObject holds.
C15_StoredDataIsReadOnly == [][env'.gdf = env.gdf]_vars

(***************************************************************************)
(* SpecSub: the sub-scores of parcel_analysis, each applied to one         *)
(* argument: a locker count, a list of at most five distances, or a record *)
(* set with boolean flags and function lists.                              *)
(***************************************************************************)
MaxLockerCount == 21   \* lockers in the radius
MaxSubRows == 2        \* records of the set

FlagCols == {"location_247", "easy_access_zone", "payment_available"}

\* What column "functions" holds: no list, or a list of 1 or 16 functions.
FunctionsValues ==
    { [is_list |-> FALSE, items |-> <<>>],
      [is_list |-> TRUE, items |-> <<"parcel_collect">>],
      [is_list |-> TRUE, items |-> [i \in 1..(MaxFunctions + 1) |-> "parcel_collect"]] }

SubRecordsWith(cols) ==
    {[attrs |-> flags @@ funcs] :
        flags \in [cols \cap FlagCols -> BOOLEAN],
        funcs \in [cols \cap {"functions"} -> FunctionsValues]}

InitSub ==
    /\ env \in {[count |-> c] : c \in 0..MaxLockerCount}
              \cup {[distances |-> d] : d \in SeqsUpTo(DistanceValues, Len(Weights))}
              \cup UNION {[csv : [cols : {cols},
                                   rows : SeqsUpTo(SubRecordsWith(cols), MaxSubRows)]] :
                             cols \in SUBSET (FlagCols \cup {"functions"})}
    /\ proc = "running"
    /\ parseCount = <<>>
    /\ gridReads = 0
    /\ ret = NoRet

SubDensityScore ==
    /\ "count" \in DOMAIN env
    /\ ret' = [op |-> "_calculate_density_score", outcome |-> "ok",
               value |-> Core_calculate_density_score(env.count)]
    /\ UNCHANGED <<env, proc, parseCount, gridReads>>

SubProximityScore ==
    /\ "distances" \in DOMAIN env
    /\ Scored1("_calculate_proximity_score", Core_calculate_proximity_score(env.distances))

SubAccessibilityScore ==
    /\ "csv" \in DOMAIN env
    /\ ret' = [op |-> "calculate_accessibility_score", outcome |-> "ok",
               value |-> LA_calculate_accessibility_score(env.csv, AllRows(env.csv))]
    /\ UNCHANGED <<env, proc, parseCount, gridReads>>

SubFunctionalityScore ==
    /\ "csv" \in DOMAIN env
    /\ ret' = [op |-> "calculate_functionality_score", outcome |-> "ok",
               value |-> calculate_functionality_score(env.csv, AllRows(env.csv))]
    /\ UNCHANGED <<env, proc, parseCount, gridReads>>

NextSub ==
    SubDensityScore \/ SubProximityScore \/ SubAccessibilityScore \/ SubFunctionalityScore

SpecSub == InitSub /\ [][NextSub]_vars

\* The fraction f is in [0, 1].
UnitFraction(f) == f.d > 0 /\ 0 <= f.n /\ f.n <= f.d

\* C16: for every locker count >= 0, every list of 0 to 5 non-negative
\* distances and every record set with boolean flags and function lists, each of
\* density_score, proximity_score, accessibility_score and functionality_score
\* returns a value in [0, 1] (scores in millionths, or fractions).
C16_SubScoresInUnitInterval ==
    /\ ret.op \in {"_calculate_density_score", "_calculate_proximity_score"} =>
          (ret.outcome = "ok" /\ 0 <= ret.value /\ ret.value <= 1000000)
    /\ ret.op \in {"calculate_accessibility_score", "calculate_functionality_score"} =>
          (ret.outcome = "ok" /\ UnitFraction(ret.value))

\* Records with more than 15 functions on average: the score is capped at 1.
C16_Witness ==
    /\ ret.op = "calculate_functionality_score"
    /\ Len(env.csv.rows) = 2
    /\ "functions" \in env.csv.cols
    /\ FunctionCounts(env.csv, AllRows(env.csv)) > MaxFunctions * 2
    /\ ret.value = [n |-> 1, d |-> 1]

\* C18: for an empty neighbour set the sub-scores are zero and nothing is
\* raised: proximity_score of an empty distance list, accessibility_score of an
\* empty record set and functionality_score of an empty record set, or of one
\* without a functions attribute, each return exactly 0.
C18_EmptySetsScoreZero ==
    /\ (ret.op = "_calculate_proximity_score" /\ env.distances = <<>>) =>
          (ret.outcome = "ok" /\ ret.value = 0)
    /\ (ret.op = "calculate_accessibility_score" /\ env.csv.rows = <<>>) =>
          (ret.outcome = "ok" /\ ret.value.n = 0)
    /\ ( /\ ret.op = "calculate_functionality_score"
         /\ (env.csv.rows = <<>> \/ "functions" \notin env.csv.cols) ) =>
          (ret.outcome = "ok" /\ ret.value.n = 0)

\* The accessibility of an empty record set that has every indicator column.
C18_Witness ==
    /\ ret.op = "calculate_accessibility_score"
    /\ env.csv.rows = <<>>
    /\ FlagCols \subseteq env.csv.cols
    /\ ret.value.n = 0

(***************************************************************************)
(* SpecPop: one Population over a grid file, asked for the residents of    *)
(* circles.  env.grid is the file, env.df the frame the object holds.      *)
(***************************************************************************)
MaxPopCells == 2     \* cells of the grid

Mid == Point(30, 60)

PopCells ==
    { [center |-> Here, RES |-> 40], [center |-> Here, RES |-> 25],
      [center |-> There, RES |-> 25], [center |-> There, RES |-> 40] }

PopGrids == {[present |-> TRUE, rows |-> rows] : rows \in SeqsUpTo(PopCells, MaxPopCells)}

\* A radius of 20 degrees of arc, in tenths of a metre.
WideRadius == 20 * TenthsPerDeg

\* A center and a radius that is no whole number of metres, the distance the
\* code measures from the center to the cells at There.
Off == Point(60, 0)

FractionalRadius == haversine(Off.x, Off.y, There.x, There.y)

\* The circles asked about: radii 0 and 4 km around each point, the wide
\* radius around Mid and the fractional radius around Off (the area of a wide
\* circle that retains a cell is beyond the integers of the model).
PopQueries ==
    ({Here, There, Mid} \X QueryRadii)
    \cup {<<Mid, WideRadius>>, <<Off, FractionalRadius>>}

InitPop ==
    /\ \E g \in PopGrids :
          env = [grid |-> g,
                 df |-> [i \in DOMAIN g.rows |->
                            [center |-> g.rows[i].center, RES |-> g.rows[i].RES,
                             distance |-> -1]]]
    /\ proc = "running"
    /\ parseCount = <<>>
    /\ gridReads = 1
    /\ ret = NoRet

\* calculate_population(center, radius) on the Population; matched is
\* len(containing_squares).
CalculatePopulation ==
    \E q \in PopQueries :
        /\ env' = [env EXCEPT !.df = calculate_population(env.df, q[1], q[2]).df]
        /\ ret' = [op |-> "calculate_population", center |-> q[1], radius |-> q[2],
                   matched |-> Cardinality(find_containing(env.df, q[1],
                                                           IntOfTenths(q[2])).idx),
                   value |-> calculate_population(env.df, q[1], q[2]).value]
        /\ UNCHANGED <<proc, parseCount, gridReads>>

NextPop == CalculatePopulation

SpecPop == InitPop /\ [][NextPop]_vars

\* The cells whose centroid lies within the radius of the center asked about.
CellsInRadius ==
    {i \in DOMAIN env.grid.rows :
        GreatCircle(ret.center, env.grid.rows[i].center) <= ret.radius}

\* C17: calculate_population returns exactly 1000 whenever no grid cell centroid
\* lies within the radius, and only then takes the sentinel branch: with a cell
\* within the radius the number of matched cells, the divisor, is at least 1 and
\* the result is the areal estimate over the cells within the radius.
C17_SentinelIffNoCellInRadius ==
    ret.op = "calculate_population" =>
        /\ CellsInRadius = {} =>
              (ret.matched = 0 /\ ret.value = SentinelPopulation * 1000)
        /\ CellsInRadius # {} =>
              /\ ret.matched >= 1
              /\ ret.matched = Cardinality(CellsInRadius)
              /\ ret.value = ((AreaMicro(ret.radius) \div 1000)
                                 * SumRES(env.grid.rows, CellsInRadius))
                                \div Cardinality(CellsInRadius)

(***************************************************************************)
(* SpecRecommend: LocationOptimizer.recommend_new_locations over a search  *)
(* area, a score calculator and the existing locations.  Coordinates and   *)
(* min_distance are hundredths of a degree.                                *)
(***************************************************************************)
MaxExisting == 1          \* existing locations
MaxRecommendations == 2   \* num_recommendations

\* sorted(all_evaluated_locations, key = score, reverse = True): the entries of
\* each score in their scan order, the scores descending.
RECURSIVE SortedByScore(_, _)
RECURSIVE TopFirst(_, _, _)
SortedByScore(all, scores) ==
    IF scores = {} THEN <<>>
    ELSE TopFirst(all, scores, CHOOSE v \in scores : \A w \in scores : w <= v)

\* The entries of the highest score top, then the rest sorted.
TopFirst(all, scores, top) ==
    SelectSeq(all, LAMBDA c : c.score = top) \o SortedByScore(all, scores \ {top})

\* np.sqrt((lat1 - lat2)**2 + (lon1 - lon2)**2) < min_distance.
Closer(lat1, lon1, lat2, lon2, min_distance) ==
    /\ min_distance > 0
    /\ (lat1 - lat2) * (lat1 - lat2) + (lon1 - lon2) * (lon1 - lon2)
         < min_distance * min_distance

\* too_close that looks at the existing locations only.
TooCloseToExisting(coordinates, existing_locations, recommendations, min_distance) ==
    \E e \in DOMAIN existing_locations :
        Closer(coordinates[1], coordinates[2],
               existing_locations[e].lat, existing_locations[e].lon, min_distance)

\* too_close after the two loops over the existing and the recommended
\* locations.
TooClose(coordinates, existing_locations, recommendations, min_distance) ==
    \/ \E e \in DOMAIN existing_locations :
          Closer(coordinates[1], coordinates[2],
                 existing_locations[e].lat, existing_locations[e].lon, min_distance)
    \/ \E r \in DOMAIN recommendations :
          Closer(coordinates[1], coordinates[2],
                 recommendations[r].coordinates[1], recommendations[r].coordinates[2],
                 min_distance)

\* The loop body for one candidate, taken holding the recommendations so far and
\* whether the loop has left through its break.
Consider(candidate, existing_locations, num_recommendations, min_distance, taken) ==
    IF TooClose(candidate.coordinates, existing_locations, taken.recommendations,
                min_distance)
    THEN taken
    ELSE [recommendations |-> Append(taken.recommendations, candidate),
          done |-> Len(taken.recommendations) + 1 >= num_recommendations]

\* The loop over the candidates n..last.
RECURSIVE FilterRun(_, _, _, _, _, _, _)
FilterRun(candidates, n, last, existing_locations, num_recommendations, min_distance, taken) ==
    IF taken.done \/ n > last THEN taken
    ELSE FilterRun(candidates, n + 1, last, existing_locations, num_recommendations,
                   min_distance,
                   Consider(candidates[n], existing_locations, num_recommendations,
                            min_distance, taken))

\* The loop over the candidates from candidate n on, taken in runs of run
\* candidates.
RECURSIVE FilterCandidates(_, _, _, _, _, _, _)
FilterCandidates(candidates, n, run, existing_locations, num_recommendations, min_distance, taken) ==
    IF taken.done \/ n > Len(candidates) THEN taken
    ELSE FilterCandidates(candidates, n + run, run, existing_locations,
                          num_recommendations, min_distance,
                          FilterRun(candidates, n, Min(n + run - 1, Len(candidates)),
                                    existing_locations, num_recommendations,
                                    min_distance, taken))

\* recommend_new_locations after find_optimal_location handed back optimal.
recommend_from(optimal, grid_size, existing_locations, num_recommendations, min_distance) ==
    IF optimal.outcome # "ok"
    THEN [outcome |-> optimal.outcome, recommendations |-> <<>>]
    ELSE [outcome |-> "ok",
          recommendations |->
              FilterCandidates(
                  SortedByScore(optimal.all_evaluated_locations,
                                {optimal.all_evaluated_locations[n].score :
                                    n \in DOMAIN optimal.all_evaluated_locations}),
                  1, grid_size, existing_locations, num_recommendations, min_distance,
                  [recommendations |-> <<>>, done |-> FALSE]).recommendations]

\* LocationOptimizer.recommend_new_locations(existing_locations, search_area,
\* score_calculator, num_recommendations, min_distance).
recommend_new_locations(existing_locations, search_area, calc, num_recommendations, min_distance) ==
    IF ~({"lat_min", "lat_max", "lon_min", "lon_max"} \subseteq DOMAIN search_area)
    THEN [outcome |-> "ValueError", recommendations |-> <<>>]
    ELSE recommend_from(find_optimal_location(calc, search_area,
                                              Max(10, num_recommendations * 3)),
                        Max(10, num_recommendations * 3),
                        existing_locations, num_recommendations, min_distance)

\* Search areas: a square, one with lat_min = lat_max, one short of a key.
SearchAreas ==
    { [lat_min |-> 0, lat_max |-> 18, lon_min |-> 0, lon_max |-> 18],
      [lat_min |-> 8, lat_max |-> 8, lon_min |-> 0, lon_max |-> 18],
      [lat_min |-> 0, lat_max |-> 18, lon_min |-> 0] }

\* What the calculator does at a point: the same score everywhere, two scores
\* in alternation, a peak at (8, 8), or one point where it raises.
ScoreFields == {"flat", "alternating", "peak", "raising"}

ScoreAt(field, p) ==
    CASE field = "flat"        -> [raises |-> FALSE, overall_score |-> 500]
      [] field = "alternating" ->
            [raises |-> FALSE,
             overall_score |-> IF ((p[1] + p[2]) \div 2) % 2 = 0 THEN 300 ELSE 700]
      [] field = "peak"        ->
            [raises |-> FALSE,
             overall_score |-> 1000 - 10 * (Abs(p[1] - 8) + Abs(p[2] - 8))]
      [] field = "raising"     ->
            [raises |-> p[2] = 18, overall_score |-> 500]

\* The lattice a recommendation scans for at most three recommendations.
SearchLattice(area) ==
    IF {"lat_min", "lat_max", "lon_min", "lon_max"} \subseteq DOMAIN area
    THEN Lattice(area, 10) ELSE {}

ExistingSites == {[lat |-> 8, lon |-> 8], [lat |-> 0, lon |-> 1]}

MinDistances == {0, 3}

InitRecommend ==
    /\ env \in UNION {[search_area : {a},
                         calc : {[p \in SearchLattice(a) |-> ScoreAt(f, p)] : f \in ScoreFields},
                         existing_locations : SeqsUpTo(ExistingSites, MaxExisting)] :
                        a \in SearchAreas}
    /\ proc = "running"
    /\ parseCount = <<>>
    /\ gridReads = 0
    /\ ret = NoRet

RecommendNewLocations ==
    \E num_recommendations \in 0..MaxRecommendations, min_distance \in MinDistances :
        /\ ret' = [op |-> "recommend_new_locations",
                   num_recommendations |-> num_recommendations,
                   min_distance |-> min_distance,
                   result |-> recommend_new_locations(env.existing_locations,
                                                      env.search_area, env.calc,
                                                      num_recommendations, min_distance)]
        /\ UNCHANGED <<env, proc, parseCount, gridReads>>

NextRecommend == RecommendNewLocations

SpecRecommend == InitRecommend /\ [][NextRecommend]_vars

\* The squared Euclidean distance of two (lat, lon) pairs.
Apart2(p, q) == (p[1] - q[1]) * (p[1] - q[1]) + (p[2] - q[2]) * (p[2] - q[2])

\* C20: in the list recommend_new_locations returns, every recommendation is at
\* least min_distance (Euclidean, in degrees) away from every other
\* recommendation and from every existing location.
C20_RecommendationsKeepDistance ==
    (ret.op = "recommend_new_locations" /\ ret.result.outcome = "ok") =>
        LET recs == ret.result.recommendations
        IN /\ \A i, j \in DOMAIN recs :
                 i # j => Apart2(recs[i].coordinates, recs[j].coordinates)
                              >= ret.min_distance * ret.min_distance
           /\ \A i \in DOMAIN recs, e \in DOMAIN env.existing_locations :
                 Apart2(recs[i].coordinates,
                        <<env.existing_locations[e].lat, env.existing_locations[e].lon>>)
                     >= ret.min_distance * ret.min_distance

\* Two recommendations from a peaked field whose peak is an existing location:
\* the peak and its neighbours were passed over.
C20_Witness ==
    /\ ret.op = "recommend_new_locations"
    /\ ret.result.outcome = "ok"
    /\ ret.min_distance = 3
    /\ env.existing_locations = <<[lat |-> 8, lon |-> 8]>>
    /\ env.calc[<<8, 8>>].overall_score = 1000
    /\ Len(ret.result.recommendations) = 2
    /\ ret.result.recommendations[1].score < 980

\* C21: the list recommend_new_locations returns never has more than
\* num_recommendations entries, for every num_recommendations >= 0, and its
\* entries appear in non-increasing score order.
C21_AtMostNumInScoreOrder ==
    (ret.op = "recommend_new_locations" /\ ret.result.outcome = "ok") =>
        /\ Len(ret.result.recommendations) <= ret.num_recommendations
        /\ \A i, j \in DOMAIN ret.result.recommendations :
              i < j => ret.result.recommendations[i].score
                           >= ret.result.recommendations[j].score

(***************************************************************************)
(* SpecAdv: LockerAnalysis.calculate_advanced_score.  env.basic_score is   *)
(* the dictionary the caller holds and passes in; scores are thousandths.  *)
(***************************************************************************)
\* dict.get(key, default).
DictGet(dict, key, default) == IF key \in DOMAIN dict THEN dict[key] ELSE default

\* dict[key] = value.
DictSet(dict, key, value) ==
    [k \in DOMAIN dict \cup {key} |-> IF k = key THEN value ELSE dict[k]]

\* The weighted sum of calculate_advanced_score: weights 0.3, 0.3, 0.2, 0.2.
AdvancedOverall(basic_score, accessibility_score, functionality_score) ==
    (3 * DictGet(basic_score, "density_score", 0)
     + 3 * DictGet(basic_score, "proximity_score", 0)
     + 2 * accessibility_score
     + 2 * functionality_score) \div 10

\* calculate_advanced_score writing into the dictionary it was handed
\* (advanced_score = basic_score, without copy()).
AdvancedScoreInPlace(basic_score, accessibility_score, functionality_score) ==
    LET advanced_score ==
            DictSet(DictSet(DictSet(basic_score, "overall_score",
                                    AdvancedOverall(basic_score, accessibility_score,
                                                    functionality_score)),
                            "accessibility_score", accessibility_score),
                    "functionality_score", functionality_score)
    IN [basic_score |-> advanced_score, advanced_score |-> advanced_score]

\* LockerAnalysis.calculate_advanced_score(basic_score, accessibility_score,
\* functionality_score): the dictionary passed in as it is after the call, and
\* the dictionary returned.
calculate_advanced_score(basic_score, accessibility_score, functionality_score) ==
    [basic_score |-> basic_score,
     advanced_score |->
         DictSet(DictSet(DictSet(basic_score, "overall_score",
                                 AdvancedOverall(basic_score, accessibility_score,
                                                 functionality_score)),
                         "accessibility_score", accessibility_score),
                 "functionality_score", functionality_score)]

SubScores == {0, 500, 1000}

\* What ScoreCalculator.calculate_score returns: overall_score is
\* 0.6 * density_score + 0.4 * proximity_score.
BasicScores ==
    {[overall_score |-> (6 * d + 4 * p) \div 10, density_score |-> d,
      proximity_score |-> p, points_in_radius |-> n, nearest_distances |-> ds] :
        d \in SubScores, p \in SubScores, n \in {0, 3}, ds \in {<<>>, <<0, 100>>}}

\* A dictionary without key, as a caller may build it.
Without(dict, key) == [k \in DOMAIN dict \ {key} |-> dict[k]]

InitAdv ==
    /\ env \in {[basic_score |-> b] : b \in BasicScores}
              \cup {[basic_score |-> Without(b, "density_score")] : b \in BasicScores}
    /\ proc = "running"
    /\ parseCount = <<>>
    /\ gridReads = 0
    /\ ret = NoRet

CalculateAdvancedScore ==
    \E accessibility_score \in SubScores, functionality_score \in SubScores :
        LET r == calculate_advanced_score(env.basic_score, accessibility_score,
                                          functionality_score)
        IN /\ env' = [env EXCEPT !.basic_score = r.basic_score]
           /\ ret' = [op |-> "calculate_advanced_score",
                      basic_score |-> env.basic_score,
                      accessibility_score |-> accessibility_score,
                      functionality_score |-> functionality_score,
                      value |-> r.advanced_score]
           /\ UNCHANGED <<proc, parseCount, gridReads>>

NextAdv == CalculateAdvancedScore

SpecAdv == InitAdv /\ [][NextAdv]_vars

\* The keys of the basic score other than overall_score.
KeptKeys == {"density_score", "proximity_score", "points_in_radius", "nearest_distances"}

\* C22: calculate_advanced_score leaves the basic score dictionary passed to it
\* unchanged and returns a new dictionary that keeps every key of the basic
\* score with its value (density_score, proximity_score, points_in_radius,
\* nearest_distances), adds accessibility_score and functionality_score, and
\* sets overall_score to 0.3 density + 0.3 proximity + 0.2 accessibility + 0.2
\* functionality.
C22_AdvancedScoreExtendsBasic ==
    ret.op = "calculate_advanced_score" =>
        /\ env.basic_score = ret.basic_score
        /\ \A k \in KeptKeys \cap DOMAIN ret.basic_score :
              k \in DOMAIN ret.value /\ ret.value[k] = ret.basic_score[k]
        /\ DOMAIN ret.value = DOMAIN ret.basic_score
                                \cup {"overall_score", "accessibility_score",
                                      "functionality_score"}
        /\ ret.value["accessibility_score"] = ret.accessibility_score
        /\ ret.value["functionality_score"] = ret.functionality_score
        /\ 10 * ret.value["overall_score"]
              = 3 * (IF "density_score" \in DOMAIN ret.basic_score
                     THEN ret.basic_score["density_score"] ELSE 0)
                + 3 * ret.basic_score["proximity_score"]
                + 2 * ret.accessibility_score + 2 * ret.functionality_score

\* A full basic score whose overall_score differs from the advanced one.
C22_Witness ==
    /\ ret.op = "calculate_advanced_score"
    /\ KeptKeys \subseteq DOMAIN ret.basic_score
    /\ ret.basic_score["overall_score"] = 1000
    /\ ret.accessibility_score = 0
    /\ ret.functionality_score = 500
    /\ ret.value["overall_score"] = 700
    /\ env.basic_score["overall_score"] = 1000

(***************************************************************************)
(* SpecSupply: ScoreCalculator.calculate_supply_score on residents (in     *)
(* thousandths), a locker count and a radius (tenths of a metre).          *)
(***************************************************************************)
MaxSupplyLockers == 3   \* lockers in the radius

\* Residents: -1, 0, 0.5, 1, 40 and the sentinel 1000.
SupplyResidents == {0 - 1000, 0, 500, 1000, 40000, SentinelPopulation * 1000}

\* Radii of 0, 1 km and 4 km.
SupplyRadii == {0, 10000, 40000}

InitSupply ==
    /\ env \in [residents : SupplyResidents, lockers : 0..MaxSupplyLockers,
                 radius : SupplyRadii]
    /\ proc = "running"
    /\ parseCount = <<>>
    /\ gridReads = 0
    /\ ret = NoRet

CalculateSupplyScore ==
    /\ ret' = [op |-> "calculate_supply_score",
               value |-> calculate_supply_score(env.residents, env.lockers, env.radius)]
    /\ UNCHANGED <<env, proc, parseCount, gridReads>>

NextSupply == CalculateSupplyScore

SpecSupply == InitSupply /\ [][NextSupply]_vars

\* C23: supply_score floors both inputs at 1: supply_score(residents, lockers,
\* r) = supply_score(max(residents, 1), max(lockers, 1), r), so 0 lockers score
\* like 1 locker, and the result is strictly positive for every radius >= 0.
C23_SupplyFloorsInputs ==
    ret.op = "calculate_supply_score" =>
        /\ ret.value = calculate_supply_score(Max(env.residents, 1000),
                                              Max(env.lockers, 1), env.radius)
        /\ env.lockers = 0 =>
              ret.value = calculate_supply_score(env.residents, 1, env.radius)
        /\ ret.value > 0

\* No resident and no locker within a radius of 0.
C23_Witness ==
    /\ ret.op = "calculate_supply_score"
    /\ env.residents = 0
    /\ env.lockers = 0
    /\ env.radius = 0
    /\ ret.value > 0

(***************************************************************************)
(* SpecHav: the two haversine functions on every pair of points of the     *)
(* coordinate grid.                                                        *)
(***************************************************************************)
HavPoints == {Point(x, y) : x \in Deg, y \in Deg}

InitHav ==
    /\ env \in [a : HavPoints, b : HavPoints]
    /\ proc = "running"
    /\ parseCount = <<>>
    /\ gridReads = 0
    /\ ret = NoRet

\* GeoObject.haversine(lat1, lon1, lat2, lon2).
Haversine ==
    /\ ret' = [op |-> "haversine",
               value |-> haversine(env.a.y, env.a.x, env.b.y, env.b.x)]
    /\ UNCHANGED <<env, proc, parseCount, gridReads>>

\* Paczkomaty._haversine(lon1, lat1, lon2, lat2).
PaczkomatyHaversine ==
    /\ ret' = [op |-> "_haversine",
               value |-> Paczkomaty_haversine(env.a.x, env.a.y, env.b.x, env.b.y)]
    /\ UNCHANGED <<env, proc, parseCount, gridReads>>

NextHav == Haversine \/ PaczkomatyHaversine

SpecHav == InitHav /\ [][NextHav]_vars

\* C24: the haversine distance is zero for coincident points and symmetric:
\* haversine(p, p) = 0 and haversine(a, b) = haversine(b, a), for
\* GeoObject.haversine and for Paczkomaty._haversine.
C24_HaversineZeroAndSymmetric ==
    /\ ret.op = "haversine" =>
          /\ ret.value = haversine(env.b.y, env.b.x, env.a.y, env.a.x)
          /\ env.a = env.b => ret.value = 0
    /\ ret.op = "_haversine" =>
          /\ ret.value = Paczkomaty_haversine(env.b.x, env.b.y, env.a.x, env.a.y)
          /\ env.a = env.b => ret.value = 0

\* Two points that differ in latitude and longitude, a positive distance apart.
C24_Witness ==
    /\ ret.op = "haversine"
    /\ env.a = Point(0, 0)
    /\ env.b = Point(60, 60)
    /\ ret.value > 0

\* C25: count computes the true great-circle distance between the center and
\* each feature: the latitude (Point.y) is passed in the latitude parameters
\* of haversine and the longitude (Point.x) in the longitude parameters, so
\* the distance stored for every feature is the great-circle distance.
C25_DistanceIsGreatCircle ==
    ret.op = "count_objects" =>
        \A i \in DOMAIN env.gdf.rows :
            env.gdf.rows[i].distance = GreatCircle(ret.center, env.gdf.rows[i].center)

(***************************************************************************)
(* SpecProvince: one Province instance, built once, on which the category  *)
(* counts and the densities are called in any order.                       *)
(***************************************************************************)
ProvinceNames == {"mazowieckie", "slaskie"}

InitProvince ==
    /\ env \in [osm : ServiceOsm, made : {FALSE}, prov : {NoValue}]
    /\ proc = "running"
    /\ parseCount = <<>>
    /\ gridReads = 0
    /\ ret = NoRet

\* What a call on the instance leaves: the process state, the instance with
\* its memoized layers, and the outcome.
AfterCall(op, c) ==
    /\ env' = [env EXCEPT !.prov = c.prov]
    /\ proc' = c.st.proc
    /\ parseCount' = c.st.parseCount
    /\ ret' = [op |-> op, outcome |-> c.outcome, value |-> c.value]
    /\ UNCHANGED gridReads

\* Province(province, center, radius).
NewProvince ==
    /\ proc = "running"
    /\ ~env.made
    /\ \E province \in ProvinceNames, center \in QueryPoints, radius \in QueryRadii :
          LET r == Province_init(World, province, center, radius)
          IN /\ env' = IF r.outcome = "ok"
                       THEN [env EXCEPT !.made = TRUE, !.prov = r.prov]
                       ELSE env
             /\ ret' = [op |-> "Province", outcome |-> r.outcome, value |-> NoValue]
             /\ UNCHANGED <<proc, parseCount, gridReads>>

\* One of the ten category counts of the instance.
CategoryCountCall ==
    /\ proc = "running"
    /\ env.made
    /\ \E i \in DOMAIN ObszarCounts :
          AfterCall(ObszarCounts[i], CountFor(ObszarCounts[i], World, env.prov))

FirmDensityCall ==
    /\ proc = "running"
    /\ env.made
    /\ AfterCall("FirmDensity", FirmDensity(World, env.prov))

ParkingDensityCall ==
    /\ proc = "running"
    /\ env.made
    /\ AfterCall("ParkingDensity", ParkingDensity(World, env.prov))

ThingsDensityCall ==
    /\ proc = "running"
    /\ env.made
    /\ AfterCall("ThingsDensity", ThingsDensity(World, env.prov))

NextProvince ==
    \/ NewProvince
    \/ CategoryCountCall
    \/ FirmDensityCall
    \/ ParkingDensityCall
    \/ ThingsDensityCall

SpecProvince == InitProvince /\ [][NextProvince]_vars

\* C26: within one Province instance, after any sequence of category-count
\* and density calls, each layer file path was loaded at most once, and the
\* layers the instance holds memoized are exactly the ones that were loaded,
\* so every call for a path gets the GeoObject of the first load.
C26_EachLayerLoadedOnce ==
    /\ \A f \in DOMAIN parseCount : parseCount[f] <= 1
    /\ env.made => DOMAIN env.prov.geo_object_dict = DOMAIN parseCount

\* FirmDensity, which asks for the points-of-interest layer twice, answered
\* after the calls before it loaded all four layers.
C26_Witness ==
    /\ env.made
    /\ ret.op = "FirmDensity"
    /\ ret.outcome = "ok"
    /\ DOMAIN parseCount = {Path("mazowieckie", n) : n \in LayerNames}

\* The features of a layer on disk that lie within the radius of the center
\* and whose fclass is one of the classes.
FeaturesWithin(osm, file, center, radius, classes) ==
    IF file \notin DOMAIN osm.files THEN {}
    ELSE {i \in DOMAIN osm.files[file].rows :
             /\ GreatCircle(center, osm.files[file].rows[i].geometry) <= radius
             /\ osm.files[file].rows[i].attrs["fclass"] \in classes}

Range(s) == {s[i] : i \in DOMAIN s}

\* C27: parking_count counts each feature at most once: it equals the number
\* of transport-layer features within the radius whose fclass is one of the
\* transport classes plus the number of traffic-layer features within the
\* radius whose fclass is one of the traffic classes.
C27_ParkingCountsEachFeatureOnce ==
    (env.made /\ ret.op = "parking" /\ ret.outcome = "ok") =>
        ret.value =
            Cardinality(FeaturesWithin(env.osm, Path(env.prov.path, TransportShp),
                                       env.prov.center, env.prov.radius,
                                       Range(TransportClasses)))
            + Cardinality(FeaturesWithin(env.osm, Path(env.prov.path, TrafficShp),
                                         env.prov.center, env.prov.radius,
                                         Range(TrafficClasses)))

\* C28: the numerator of FirmDensity counts each feature at most once:
\* FirmDensity times the circle area is the number of points of interest
\* within the radius whose fclass is a shop class or a business-services
\* class.
C28_FirmDensityCountsEachFeatureOnce ==
    (env.made /\ ret.op = "FirmDensity" /\ ret.outcome = "ok") =>
        ret.value =
            (Cardinality(FeaturesWithin(env.osm, Path(env.prov.path, PoisShp),
                                        env.prov.center, env.prov.radius,
                                        Range(ShopClasses) \cup Range(BusinessClasses)))
                * 100000000)
            \div ((AreaMicro(env.prov.radius) \div 1000) \div 10)

(***************************************************************************)
(* preprocess.map_woje: the region id stored for each locker row.  The      *)
(* Polish letters of the province names are written without diacritics.    *)
(***************************************************************************)
wojewodztwa_map ==
    << "dolnoslaskie", "kujawsko-pomorskie", "lubelskie", "lubuskie", "lodzkie",
       "malopolskie", "mazowieckie", "opolskie", "podkarpackie", "podlaskie",
       "pomorskie", "slaskie", "swietokrzyskie", "warminsko-mazurskie",
       "wielkopolskie", "zachodniopomorskie" >>

\* str.lower() on the province values of the raw data.
Lower(s) ==
    CASE s = "Mazowieckie" -> "mazowieckie"
      [] s = "SLASKIE"     -> "slaskie"
      [] OTHER             -> s

\* gdf['address_details.province'].str.lower().map(wojewodztwa_map), then
\* fillna(0).astype(int): 0 for a province that is no key of the map.
map_woje(province) ==
    LET ids == {i \in DOMAIN wojewodztwa_map : wojewodztwa_map[i] = Lower(province)}
    IN IF ids = {} THEN 0 ELSE CHOOSE i \in ids : TRUE

\* Province values of raw locker rows: two provinces of the map and one that
\* is none of its keys.
ProvinceColumn == {"Mazowieckie", "SLASKIE", "Praha"}

\* The region ids as the processed csv holds them.
PreprocessedIds == {ToString(map_woje(p)) : p \in ProvinceColumn}

\* The locker dataset of the service is one that preprocessing can produce.
LockersArePreprocessed ==
    \A i \in DOMAIN env.lockers.rows :
        env.lockers.rows[i].wojewodztwo_id \in PreprocessedIds

\* C29: every region id that resolve can return for a locker dataset produced
\* by preprocessing has an entry in id_to_woj_bez_znakow, so the demand score
\* never fails on the name lookup: no request ends in KeyError.
C29_ResolvedRegionHasName ==
    (LockersArePreprocessed /\ ret.op \in {"calculate_result", "get_obszar"}) =>
        ret.outcome # "KeyError"

\* C30: calculate_population selects cells with the radius it uses for the
\* circle area: for every radius, a fractional number of metres included, the
\* matched cells are exactly those whose measured distance is at most the
\* radius, without rounding or truncation.
C30_CellsSelectedWithGivenRadius ==
    ret.op = "calculate_population" =>
        ret.matched = Cardinality({i \in DOMAIN env.df :
                                      env.df[i].distance <= ret.radius})

=============================================================================
